---- MODULE Spec2Model ----
(***************************************************************************)
(* Room assignment solver: interval calendar, legacy per-type solver       *)
(* (logic.py), public solve (logic/solver.py) and validator.               *)
(*                                                                         *)
(* A date string "dd/mm/YYYY" is the pair <<dd, mm>> (one fixed year); a   *)
(* room label is a string whose embedded number is given by RoomNum.       *)
(* Row indices are 1-based here (the code's _idx is 0-based).              *)
(***************************************************************************)
EXTENDS Integers, Sequences, FiniteSets, TLC

VARIABLES
    room_calendars,   \* (room_type, room) -> list of (start, end), module global
    cal_last,         \* the last calendar call and what it returned
    cal_count,        \* number of reserve calls made (bounds the calendar runs)
    families_df,      \* input of assign_rooms: the booking rows
    rooms_df,         \* input of assign_rooms: the catalog rows
    pc,               \* position of assign_rooms (logic.py)
    rt_queue,         \* room types still to solve, in groupby order
    pt,               \* locals of the running _assign_per_type call
    ret,              \* what the last _assign_per_type call returned
    assigned_rows,    \* assign_rooms: rows placed so far
    unassigned_rows,  \* assign_rooms: rows left without a room so far
    log,              \* lines passed to log_func
    raised,           \* the exception that left the running call, or "none"
    global_assigned,  \* solver.py assign_rooms: booking idx -> room
    val_out,          \* what validate_constraints returned
    diag_out          \* what explain_soft_constraints returned

calVars == <<room_calendars, cal_last, cal_count>>

inVars == <<families_df, rooms_df>>

sideVars == <<raised, global_assigned, val_out, diag_out>>

legacyVars == <<families_df, rooms_df, pc, rt_queue, pt, ret, assigned_rows,
                unassigned_rows, log, sideVars>>

vars == <<room_calendars, cal_last, cal_count, families_df, rooms_df, pc,
          rt_queue, pt, ret, assigned_rows, unassigned_rows, log, raised,
          global_assigned, val_out, diag_out>>

-----------------------------------------------------------------------------
(* Bounds *)

\* date points of the calendar and solver runs
NumDates == 3
\* reserve calls in a calendar run
MaxReserve == 2
\* booking rows handed to a solve
MaxRows == 3
\* room labels a catalog draws from
MaxRooms == 2
\* date points and rows of a validator run
ValDates == 4
MaxValRows == 3
\* date points and rows of the runs with pinned one-night bookings
PinDates == 5
PinRows == 5
\* rows of the assignment table a manual override starts from
EditRows == 3
\* booking rows and table rows of a session of solve and rebuild calls
SessRows == 2
\* rooms of the catalog in the scenario of a family with three bookings
ScenRooms == 5
\* rooms of the catalog and bookings of a diagnostics run
DiagRooms == 3
DiagRows == 4
\* bookings of a diagnostics run in which rooms are forced
DiagForcedRows == 3
\* bookings and rooms of one search of the last rung
RungRows == 3
RungRooms == 2
\* bookings, rooms and node budgets of one search with a small budget
BudgetRows == 3
BudgetRooms == 2
MaxNodeLimit == 4
GapRows == 3
FieldRows == 4
FieldForcedRows == 3

\* numbers of logic/solver.py: float("inf"), time_limit_sec, node_limit and
\* the floors of the per-type budgets
InfPenalty == 1000000
TimeLimitSec == 60
NodeLimit == 500000
MinTimeSec == 3
MinNodes == 20000

-----------------------------------------------------------------------------
(* Dates, labels, small helpers *)

DateList == << <<30, 1>>, <<31, 1>>, <<1, 2>>, <<2, 2>>, <<3, 2>>, <<4, 2>>, <<5, 2>> >>

DateStrs == { DateList[i] : i \in 1..NumDates }

BadDate == <<0, 0>>

\* strptime(s, "%d/%m/%Y") succeeds iff day and month are in range
ParseOk(s) == s[1] \in 1..31 /\ s[2] \in 1..12

\* the datetime of a date string, as a day ordinal (dates order by month, then day)
ParseDate(s) == (s[2] - 1) * 31 + s[1]

\* an overlap test that also counts touching intervals
OverlapsClosed(a_start, a_end, b_start, b_end) ==
    ~ (a_end < b_start \/ a_start > b_end)

Overlaps(a_start, a_end, b_start, b_end) ==
    ~ (a_end <= b_start \/ a_start >= b_end)

ProperIntervals ==
    { iv \in DateStrs \X DateStrs : ParseDate(iv[1]) < ParseDate(iv[2]) }

LabelList == <<"1", "2", "3", "4", "5", "6">>

RoomLabels == { LabelList[i] : i \in 1..MaxRooms }

\* first number inside the label (re.search(r"\d+")); -1 when there is none
RoomNum(r) ==
    CASE r = "1" -> 1 [] r = "2" -> 2 [] r = "3" -> 3 [] r = "4" -> 4
      [] r = "5" -> 5 [] r = "6" -> 6 [] r = "7" -> 7 [] OTHER -> -1

\* position of the label in string order (the tie-breaker of the sort key)
LabelRank(r) ==
    CASE r = "1" -> 1 [] r = "2" -> 2 [] r = "3" -> 3 [] r = "4" -> 4
      [] r = "5" -> 5 [] r = "6" -> 6 [] r = "7" -> 7 [] OTHER -> 8

\* (first number or +inf, label) as one integer
RoomSortKey(r) ==
    (IF RoomNum(r) >= 0 THEN RoomNum(r) ELSE 1000) * 10 + LabelRank(r)

AreSerial(r1, r2) ==
    /\ RoomNum(r1) >= 0
    /\ RoomNum(r2) >= 0
    /\ (RoomNum(r1) - RoomNum(r2) = 1 \/ RoomNum(r2) - RoomNum(r1) = 1)

CleanOpt(v) == IF v \in {"", "nan", "none", "null"} THEN "" ELSE v

Max2(a, b) == IF a >= b THEN a ELSE b

Last(s) == s[Len(s)]

Front(s) == SubSeq(s, 1, Len(s) - 1)

SeqToSet(s) == { s[i] : i \in DOMAIN s }

Idxs(n) == [i \in 1..n |-> i]

\* a dict without one key (dict.pop(k, None))
DropKey(f, k) == [x \in DOMAIN f \ {k} |-> f[x]]

\* dict[k] = v
PutKey(f, k, v) == [x \in DOMAIN f \cup {k} |-> IF x = k THEN v ELSE f[x]]

\* Python's stable sort of the positions 1..n by an integer key
RECURSIVE InsertByKey(_, _, _)
InsertByKey(acc, i, key) ==
    IF acc = <<>> THEN <<i>>
    ELSE IF key[i] < key[Head(acc)] THEN <<i>> \o acc
    ELSE <<Head(acc)>> \o InsertByKey(Tail(acc), i, key)

RECURSIVE SortIdx(_, _)
SortIdx(n, key) ==
    IF n = 0 THEN <<>> ELSE InsertByKey(SortIdx(n - 1, key), n, key)

\* the distinct elements of a list, in order of first appearance
RECURSIVE Dedup(_)
Dedup(s) ==
    IF s = <<>> THEN <<>>
    ELSE IF Last(s) \in SeqToSet(Front(s)) THEN Dedup(Front(s))
    ELSE Append(Dedup(Front(s)), Last(s))

\* the list seq rearranged by the positions ord
Permute(seq, ord) == [k \in DOMAIN seq |-> seq[ord[k]]]

\* position of a room type / a family in string order (sorted keys)
TypeRank(rt) == CASE rt = "T1" -> 1 [] rt = "T2" -> 2 [] OTHER -> 3

FamilyRank(f) == CASE f = "A" -> 1 [] f = "B" -> 2 [] OTHER -> 3

\* the distinct room types / families of a list in sorted order
TypesSorted(vals) ==
    Permute(Dedup(vals),
            SortIdx(Len(Dedup(vals)),
                    [k \in DOMAIN Dedup(vals) |-> TypeRank(Dedup(vals)[k])]))

FamiliesSorted(vals) ==
    Permute(Dedup(vals),
            SortIdx(Len(Dedup(vals)),
                    [k \in DOMAIN Dedup(vals) |-> FamilyRank(Dedup(vals)[k])]))

-----------------------------------------------------------------------------
(* Interval calendar: logic/calendar_store.py (logic.py keeps a calendar of *)
(* its own with the same code; the runs never mix the two)                 *)

RoomTypes == {"T1", "T2"}

CalKeys == { <<"T1", "1">>, <<"T1", "2">>, <<"T2", "1">> }

CalOf(cal, key) == IF key \in DOMAIN cal THEN cal[key] ELSE <<>>

\* `if key not in room_calendars: room_calendars[key] = []`
EnsureKey(cal, key) == IF key \in DOMAIN cal THEN cal ELSE cal @@ (key :> <<>>)

IsAvailableResult(cal, key, check_in_str, check_out_str) ==
    \A i \in DOMAIN CalOf(cal, key) :
        ~ Overlaps(ParseDate(check_in_str), ParseDate(check_out_str),
                   CalOf(cal, key)[i][1], CalOf(cal, key)[i][2])

ReserveInto(cal, key, check_in_str, check_out_str) ==
    [ EnsureKey(cal, key) EXCEPT
        ![key] = Append(@, <<ParseDate(check_in_str), ParseDate(check_out_str)>>) ]

NoCall == [op |-> "none"]

NoVal == [called |-> FALSE]

NoDiag == [called |-> FALSE]

LegacyIdle ==
    /\ families_df = <<>>
    /\ rooms_df = <<>>
    /\ pc = "idle"
    /\ rt_queue = <<>>
    /\ pt = [phase |-> "none"]
    /\ ret = [phase |-> "none"]
    /\ assigned_rows = <<>>
    /\ unassigned_rows = <<>>
    /\ log = <<>>
    /\ raised = "none"
    /\ global_assigned = << >>
    /\ val_out = NoVal
    /\ diag_out = NoDiag

InitCal ==
    /\ room_calendars = << >>
    /\ cal_last = NoCall
    /\ cal_count = 0
    /\ LegacyIdle

is_available(key, ci, co) ==
    /\ room_calendars' = EnsureKey(room_calendars, key)
    /\ cal_last' = [op |-> "is_available", key |-> key, check_in |-> ci,
                    check_out |-> co,
                    result |-> IsAvailableResult(room_calendars, key, ci, co)]
    /\ UNCHANGED cal_count

reserve(key, ci, co) ==
    /\ cal_count < MaxReserve
    /\ room_calendars' = ReserveInto(room_calendars, key, ci, co)
    /\ cal_last' = [op |-> "reserve", key |-> key, check_in |-> ci,
                    check_out |-> co, result |-> "returned"]
    /\ cal_count' = cal_count + 1

CalIsAvailable ==
    /\ \E key \in CalKeys, ci \in DateStrs, co \in DateStrs : is_available(key, ci, co)
    /\ UNCHANGED legacyVars

CalReserve ==
    /\ \E key \in CalKeys, ci \in DateStrs, co \in DateStrs : reserve(key, ci, co)
    /\ UNCHANGED legacyVars

NextCal == CalIsAvailable \/ CalReserve

SpecCal == InitCal /\ [][NextCal]_vars

-----------------------------------------------------------------------------
(* Legacy per-type solver: logic.py, _assign_per_type *)

\* a schedule test that only compares the start dates
NoConflictSameStart(room_sched, start, end) ==
    \A i \in DOMAIN room_sched : room_sched[i][1] # start

NoConflictWithSchedule(room_sched, start, end) ==
    \A i \in DOMAIN room_sched :
        ~ Overlaps(room_sched[i][1], room_sched[i][2], start, end)

\* rooms = [_norm_room(r) ...]; rooms.sort(key=_room_sort_key)
SortRooms(rooms) ==
    Permute(rooms, SortIdx(Len(rooms), [i \in DOMAIN rooms |-> RoomSortKey(rooms[i])]))

FreshSchedules(rooms) == [r \in SeqToSet(rooms) |-> <<>>]

\* the loop that adds _idx, _start, _end, _forced to every row
IndexRows(rows) ==
    [i \in DOMAIN rows |->
        [family |-> rows[i].family,
         room_type |-> rows[i].room_type,
         check_in |-> rows[i].check_in,
         check_out |-> rows[i].check_out,
         forced_room |-> rows[i].forced_room,
         idx |-> i,
         start |-> ParseDate(rows[i].check_in),
         end |-> ParseDate(rows[i].check_out),
         forced |-> CleanOpt(rows[i].forced_room)]]

\* _max_overlap: sweep over the sorted (date, +1/-1) events
RECURSIVE SweepBest(_, _, _)
SweepBest(deltas, cur, best) ==
    IF deltas = <<>> THEN best
    ELSE SweepBest(Tail(deltas), cur + Head(deltas), Max2(best, cur + Head(deltas)))

\* events: row k gives (start, +1) at 2k-1 and (end, -1) at 2k
OverlapEvents(rows) ==
    [k \in 1..(2 * Len(rows)) |->
        IF k % 2 = 1 THEN <<rows[(k + 1) \div 2].start, 1>>
        ELSE <<rows[k \div 2].end, -1>>]

SweepEvents(ev) ==
    SweepBest([k \in DOMAIN ev |->
                 Permute(ev, SortIdx(Len(ev),
                     [j \in DOMAIN ev |-> ev[j][1] * 4 + ev[j][2] + 1]))[k][2]], 0, 0)

MaxOverlap(rows) == SweepEvents(OverlapEvents(rows))

\* can_place of the packing loop for row i on its forced room
CanPlace(st, forced_room, i) ==
    /\ \A k \in DOMAIN st.placed :
          ~ Overlaps(st.rows[st.placed[k]].start, st.rows[st.placed[k]].end,
                     st.rows[i].start, st.rows[i].end)
    /\ NoConflictWithSchedule(st.schedules[forced_room],
                              st.rows[i].start, st.rows[i].end)

\* one forced room's group, in (end, start) order: pin what fits, waive the rest
RECURSIVE PackGroup(_, _, _, _)
PackGroup(todo, forced_room, rt, st) ==
    IF todo = <<>> THEN st
    ELSE IF CanPlace(st, forced_room, Head(todo))
    THEN PackGroup(Tail(todo), forced_room, rt,
           [st EXCEPT
              !.schedules[forced_room] =
                  Append(@, <<st.rows[Head(todo)].start, st.rows[Head(todo)].end>>),
              !.assignment = PutKey(@, Head(todo), forced_room),
              !.placed = Append(@, Head(todo)),
              !.pinned_forced_ids = Append(@, Head(todo))])
    ELSE PackGroup(Tail(todo), forced_room, rt,
           [st EXCEPT
              !.waived_forced = Append(@, Head(todo)),
              !.rows[Head(todo)].forced = "",
              !.log = Append(@, <<"forced_overlap_waived", rt,
                                  st.rows[Head(todo)].family, Head(todo)>>)])

\* the group taken in table order
GroupInTableOrder(rows, group) == group

\* sorted(group, key=lambda x: (x["_end"], x["_start"]))
GroupSorted(rows, group) ==
    Permute(group, SortIdx(Len(group),
        [k \in DOMAIN group |-> rows[group[k]].end * 1000 + rows[group[k]].start]))

RECURSIVE PackGroups(_, _, _)
PackGroups(labels, rt, st) ==
    IF labels = <<>> THEN st
    ELSE PackGroups(Tail(labels), rt,
           PackGroup(
             GroupSorted(st.rows,
                 SelectSeq(Idxs(Len(st.rows)), LAMBDA i : st.rows[i].forced = Head(labels))),
             Head(labels), rt, [st EXCEPT !.placed = <<>>]))

\* the not-found test with the membership turned around
NotFoundInverted(rows0, rooms) ==
    SelectSeq(Idxs(Len(rows0)), LAMBDA i :
        rows0[i].forced # "" /\ rows0[i].forced \in SeqToSet(rooms))

\* the rows whose forced label is not a room of the type
NotFound(rows0, rooms) ==
    SelectSeq(Idxs(Len(rows0)), LAMBDA i :
        rows0[i].forced # "" /\ rows0[i].forced \notin SeqToSet(rooms))

\* the keys of forced_groups, in dict (first appearance) order
ForcedGroupLabels(rows0, rooms) ==
    SelectSeq(Dedup([i \in DOMAIN rows0 |-> rows0[i].forced]),
              LAMBDA g : g # "" /\ g \in SeqToSet(rooms))

\* forced pre-placement: the not-found loop, then the per-room packing
ForcedPreplacement(rows0, rooms, rt, log0) ==
    PackGroups(ForcedGroupLabels(rows0, rooms), rt,
        [rows |-> [i \in DOMAIN rows0 |->
                     IF rows0[i].forced # "" /\ rows0[i].forced \notin SeqToSet(rooms)
                     THEN [rows0[i] EXCEPT !.forced = ""] ELSE rows0[i]],
         schedules |-> FreshSchedules(rooms),
         assignment |-> << >>,
         waived_forced |-> NotFound(rows0, rooms),
         pinned_forced_ids |-> <<>>,
         placed |-> <<>>,
         log |-> log0 \o [k \in DOMAIN NotFound(rows0, rooms) |->
                    <<"forced_not_found_waived", rt,
                      rows0[NotFound(rows0, rooms)[k]].family,
                      NotFound(rows0, rooms)[k]>>]])

\* rooms already given to rows of the same family in cur_assign
FamRooms(rows, row, cur_assign) ==
    { cur_assign[i] : i \in { j \in DOMAIN cur_assign : rows[j].family = rows[row].family } }

\* (serial_score(rm), _room_sort_key(rm)) as one integer
CandKey(rows, row, cur_assign, rm) ==
    (0 - Cardinality({ fr \in FamRooms(rows, row, cur_assign) : AreSerial(fr, rm) })) * 100000
      + RoomSortKey(rm)

SortCands(rows, row, cur_assign, cands) ==
    Permute(cands, SortIdx(Len(cands),
        [k \in DOMAIN cands |-> CandKey(rows, row, cur_assign, cands[k])]))

CandidatesFor(rows, rooms, row, sched, cur_assign) ==
    SortCands(rows, row, cur_assign,
        SelectSeq(rooms, LAMBDA rm :
            NoConflictWithSchedule(sched[rm], rows[row].start, rows[row].end)))

\* position of the first smallest count
FirstMin(cnt) ==
    CHOOSE k \in DOMAIN cnt :
        /\ \A j \in DOMAIN cnt : cnt[k] <= cnt[j]
        /\ \A j \in 1..(k - 1) : cnt[j] > cnt[k]

\* the unassigned row with the fewest candidates, the first one on ties
SelectUnassigned(rows, rooms, unassigned, sched, cur_assign) ==
    unassigned[FirstMin([k \in DOMAIN unassigned |->
        Len(CandidatesFor(rows, rooms, unassigned[k], sched, cur_assign))])]

\* sched[rm].append(...); cur_assign[idx] = rm
Place(st, rows, row, rm) ==
    [st EXCEPT !.sched[rm] = Append(@, <<rows[row].start, rows[row].end>>),
               !.assign = PutKey(@, row, rm),
               !.reached = Max2(@, Cardinality(DOMAIN st.assign \cup {row}))]

\* an undo that empties cur_assign instead of taking one row out
UndoClears(st, row, rm) ==
    [st EXCEPT !.sched[rm] = Front(@), !.assign = << >>]

\* an undo that takes the row out of cur_assign and leaves its interval in sched
UndoKeepsInterval(st, row, rm) ==
    [st EXCEPT !.assign = DropKey(@, row)]

\* sched[rm].pop(); cur_assign.pop(idx, None)
Undo(st, row, rm) ==
    [st EXCEPT !.sched[rm] = Front(@), !.assign = DropKey(@, row)]

\* history of the run: the trail holds sched and cur_assign as they were before
\* each placement that is not yet undone
NoteTrail(st) ==
    [st EXCEPT !.trail = Append(@, [sched |-> st.sched, assign |-> st.assign])]

\* after an undo: sched and cur_assign are compared with the top of the trail
NoteUndone(st) ==
    [st EXCEPT
       !.undone_exactly = @ /\ st.trail # <<>>
                            /\ st.sched = Last(st.trail).sched
                            /\ st.assign = Last(st.trail).assign,
       !.undone = @ + 1,
       !.trail = IF st.trail = <<>> THEN <<>> ELSE Front(st.trail)]

\* after the candidate loop failed: keep cur_assign when it beats best_partial
KeepBest(r) ==
    IF r.ok THEN r
    ELSE [ok |-> FALSE,
          st |-> [r.st EXCEPT !.best =
                    IF Cardinality(DOMAIN r.st.assign) > Cardinality(DOMAIN @)
                    THEN r.st.assign ELSE @]]

\* backtrack(unassigned, sched, cur_assign); st carries the mutable objects
\* sched, assign (cur_assign), best (best_partial) and the observation
\* reached: the size of the largest cur_assign built so far
RECURSIVE Backtrack(_, _, _, _)
RECURSIVE BacktrackRow(_, _, _, _, _)
RECURSIVE BacktrackLoop(_, _, _, _, _, _)
RECURSIVE TryCands(_, _, _, _, _, _)
RECURSIVE TryNext(_, _, _, _, _, _)
Backtrack(rows, rooms, unassigned, st) ==
    IF unassigned = <<>> THEN [ok |-> TRUE, st |-> st]
    ELSE BacktrackRow(rows, rooms, unassigned, st,
            SelectUnassigned(rows, rooms, unassigned, st.sched, st.assign))

BacktrackRow(rows, rooms, unassigned, st, row) ==
    BacktrackLoop(rows, rooms, unassigned, st, row,
        CandidatesFor(rows, rooms, row, st.sched, st.assign))

BacktrackLoop(rows, rooms, unassigned, st, row, cands) ==
    IF cands = <<>> THEN [ok |-> FALSE, st |-> st]
    ELSE KeepBest(TryCands(rows, rooms, unassigned, row, cands, st))

\* the `for rm in cands` loop: place, recurse, undo
TryCands(rows, rooms, unassigned, row, cands, st) ==
    IF cands = <<>> THEN [ok |-> FALSE, st |-> st]
    ELSE TryNext(rows, rooms, unassigned, row, cands,
            Backtrack(rows, rooms, SelectSeq(unassigned, LAMBDA i : i # row),
                      Place(NoteTrail(st), rows, row, Head(cands))))

TryNext(rows, rooms, unassigned, row, cands, res) ==
    IF res.ok THEN res
    ELSE TryCands(rows, rooms, unassigned, row, Tail(cands),
                  NoteUndone(Undo(res.st, row, Head(cands))))

\* number of other rows whose interval overlaps row fid
ConflictDegree(rows, fid) ==
    Cardinality({ o \in DOMAIN rows :
                    o # fid /\ Overlaps(rows[fid].start, rows[fid].end,
                                        rows[o].start, rows[o].end) })

\* sorted(pinned_forced_ids, key=lambda fid: -conflict_degree(fid))
TryOrder(rows, pinned) ==
    Permute(pinned, SortIdx(Len(pinned),
        [k \in DOMAIN pinned |-> 0 - ConflictDegree(rows, pinned[k])]))

\* schedules and assignment holding every pinned row except fid
RECURSIVE PinsWithout(_, _, _, _, _)
PinsWithout(pinned, fid, rows, assignment, acc) ==
    IF pinned = <<>> THEN acc
    ELSE IF Head(pinned) = fid
    THEN PinsWithout(Tail(pinned), fid, rows, assignment, acc)
    ELSE PinsWithout(Tail(pinned), fid, rows, assignment,
           [acc EXCEPT
              !.sched[assignment[Head(pinned)]] =
                  Append(@, <<rows[Head(pinned)].start, rows[Head(pinned)].end>>),
              !.assign = PutKey(@, Head(pinned), assignment[Head(pinned)])])

\* the rows that are not keys of the assignment, in row order
Remainder(rows, assignment) ==
    SelectSeq(Idxs(Len(rows)), LAMBDA i : i \notin DOMAIN assignment)

\* `if remainder: backtrack(remainder, ...)`: solved stays False otherwise
RunBacktrack(rows, rooms, remainder, st0) ==
    IF remainder # <<>> THEN Backtrack(rows, rooms, remainder, st0)
    ELSE [ok |-> FALSE, st |-> st0]

-----------------------------------------------------------------------------
(* Legacy orchestrator: logic.py, assign_rooms *)

\* rooms of one type, naturally sorted (rooms_by_type.get(rt, []))
RoomLabelsOf(sel) == [k \in DOMAIN sel |-> sel[k].room]

\* the labels of the whole catalog, whatever the type
RoomsAnyType(rdf, rt) == SortRooms(RoomLabelsOf(rdf))

RoomsByType(rdf, rt) ==
    SortRooms(RoomLabelsOf(SelectSeq(rdf, LAMBDA r : r.room_type = rt)))

\* the rows of the whole table, whatever the type
RowsAnyType(fam, rt) == fam

\* the rows of one type, in input order (group.to_dict("records"))
RowsOfType(fam, rt) == SelectSeq(fam, LAMBDA r : r.room_type = rt)

\* fam.groupby("room_type", sort=False): types in order of first appearance
TypeOrder(fam) == Dedup([i \in DOMAIN fam |-> fam[i].room_type])

\* the log line of one assigned row
AssignedLine(rt, row, r, i) ==
    IF CleanOpt(row.forced_room) # "" /\ i \notin SeqToSet(r.waived_forced)
          /\ r.assignment[i] = CleanOpt(row.forced_room)
    THEN <<"used_forced", rt, row.family, r.assignment[i]>>
    ELSE IF CleanOpt(row.forced_room) # "" /\ i \in SeqToSet(r.waived_forced)
    THEN <<"forced_waived", rt, row.family, r.assignment[i]>>
    ELSE <<"assigned", rt, row.family, r.assignment[i]>>

\* the loop that builds the outputs of one type and reserves into the calendar
RECURSIVE CommitRows(_, _, _, _, _)
CommitRows(i, rows, rt, r, acc) ==
    IF i > Len(rows) THEN acc
    ELSE IF i \in DOMAIN r.assignment
    THEN CommitRows(i + 1, rows, rt, r,
           [acc EXCEPT
              !.cal = ReserveInto(@, <<rt, r.assignment[i]>>,
                                  rows[i].check_in, rows[i].check_out),
              !.assigned = Append(@,
                  [family |-> rows[i].family, room |-> r.assignment[i],
                   room_type |-> rt, check_in |-> rows[i].check_in,
                   check_out |-> rows[i].check_out,
                   forced_room |-> CleanOpt(rows[i].forced_room)]),
              !.log = Append(@, AssignedLine(rt, rows[i], r, i))])
    ELSE CommitRows(i + 1, rows, rt, r,
           [acc EXCEPT !.unassigned = Append(@, rows[i])])

\* the per-type summary notes
SummaryLog(lg, rt, r) ==
    (lg \o (IF r.waived_forced # <<>>
            THEN << <<"waived_summary", rt, Len(r.waived_forced)>> >> ELSE <<>>))
       \o (IF r.unassigned # <<>>
           THEN << <<"unassigned_summary", rt, Len(r.unassigned)>> >> ELSE <<>>)

NoPt == [phase |-> "none"]

AssignRoomsBegin ==
    /\ pc = "start"
    /\ room_calendars' = << >>
    /\ rt_queue' = TypeOrder(families_df)
    /\ assigned_rows' = <<>>
    /\ unassigned_rows' = <<>>
    /\ pc' = "loop"
    /\ UNCHANGED <<cal_last, cal_count, inVars, sideVars, pt, ret, log>>

\* a type without rooms: all its rows are unassigned
TypeNoRooms ==
    /\ pc = "loop"
    /\ rt_queue # <<>>
    /\ RoomsByType(rooms_df, Head(rt_queue)) = <<>>
    /\ unassigned_rows' = unassigned_rows \o RowsOfType(families_df, Head(rt_queue))
    /\ log' = Append(log, <<"no_rooms", Head(rt_queue)>>)
    /\ rt_queue' = Tail(rt_queue)
    /\ UNCHANGED <<calVars, inVars, sideVars, pc, pt, ret, assigned_rows>>

\* the locals of _assign_per_type once the forced pre-placement is done
PhaseASet(rt, rooms, st) ==
    /\ pt' = [phase |-> "A", rt |-> rt, rooms |-> rooms, rows |-> st.rows,
              schedules |-> st.schedules, assignment |-> st.assignment,
              waived_forced |-> st.waived_forced,
              pinned_forced_ids |-> st.pinned_forced_ids,
              best_partial |-> st.assignment,
              try_order |-> <<>>,
              reached |-> Cardinality(DOMAIN st.assignment),
              undone |-> 0, undone_exactly |-> TRUE]
    /\ log' = st.log

\* the capacity hint logged before the pre-placement
HintLog(lg, rt, mo, nrooms) ==
    IF mo > nrooms THEN Append(lg, <<"rooms_exceeded", rt, mo, nrooms>>) ELSE lg

PhaseARun(rt, rooms, rows0) ==
    PhaseASet(rt, rooms,
        ForcedPreplacement(rows0, rooms, rt,
            HintLog(log, rt, MaxOverlap(rows0), Len(rooms))))

\* _assign_per_type up to the end of the forced pre-placement
PhaseA ==
    /\ pc = "loop"
    /\ rt_queue # <<>>
    /\ RoomsByType(rooms_df, Head(rt_queue)) # <<>>
    /\ PhaseARun(Head(rt_queue),
                 SortRooms(RoomsByType(rooms_df, Head(rt_queue))),
                 IndexRows(RowsOfType(families_df, Head(rt_queue))))
    /\ pc' = "phaseB"
    /\ UNCHANGED <<calVars, inVars, sideVars, rt_queue, ret, assigned_rows,
                   unassigned_rows>>

\* what the backtracking left in the locals
AfterSearch(p, r, phase) ==
    [p EXCEPT !.phase = phase,
              !.schedules = r.st.sched,
              !.assignment = r.st.assign,
              !.best_partial = r.st.best,
              !.reached = r.st.reached,
              !.undone = r.st.undone,
              !.undone_exactly = r.st.undone_exactly]

PhaseBSet(r) ==
    IF r.ok
    THEN /\ pt' = AfterSearch(pt, r, "B")
         /\ ret' = [phase |-> "B", assignment |-> r.st.assign,
                    waived_forced |-> pt.waived_forced, unassigned |-> <<>>]
         /\ pc' = "commit"
    ELSE IF pt.pinned_forced_ids # <<>>
    THEN /\ pt' = [AfterSearch(pt, r, "B") EXCEPT
                      !.try_order = TryOrder(pt.rows, pt.pinned_forced_ids)]
         /\ ret' = ret
         /\ pc' = "phaseC"
    ELSE /\ pt' = AfterSearch(pt, r, "B")
         /\ ret' = ret
         /\ pc' = "fail"

\* the MRV backtracking over the rows that were not pinned
PhaseB ==
    /\ pc = "phaseB"
    /\ PhaseBSet(RunBacktrack(pt.rows, pt.rooms, Remainder(pt.rows, pt.assignment),
                    [sched |-> pt.schedules, assign |-> pt.assignment,
                     best |-> pt.best_partial, reached |-> pt.reached,
                     trail |-> <<>>, undone |-> pt.undone,
                     undone_exactly |-> pt.undone_exactly]))
    /\ UNCHANGED <<calVars, inVars, sideVars, rt_queue, assigned_rows,
                   unassigned_rows, log>>

PhaseCSet(fid, r) ==
    IF r.ok
    THEN /\ pt' = [pt EXCEPT !.phase = "C", !.reached = r.st.reached,
                             !.undone = r.st.undone,
                             !.undone_exactly = r.st.undone_exactly]
         /\ ret' = [phase |-> "C", assignment |-> r.st.assign,
                    waived_forced |-> Append(pt.waived_forced, fid),
                    unassigned |-> <<>>]
         /\ log' = Append(log, <<"waived_one_forced", pt.rt>>)
         /\ pc' = "commit"
    ELSE /\ pt' = [pt EXCEPT !.phase = "C", !.reached = r.st.reached,
                             !.undone = r.st.undone,
                             !.undone_exactly = r.st.undone_exactly,
                             !.try_order = Tail(@)]
         /\ ret' = ret
         /\ log' = log
         /\ pc' = IF Tail(pt.try_order) = <<>> THEN "fail" ELSE "phaseC"

PhaseCRun(fid, base) ==
    PhaseCSet(fid,
        RunBacktrack(pt.rows, pt.rooms, Remainder(pt.rows, base.assign),
            [sched |-> base.sched, assign |-> base.assign,
             best |-> base.assign, reached |-> pt.reached,
             trail |-> <<>>, undone |-> pt.undone,
             undone_exactly |-> pt.undone_exactly]))

\* one attempt of the relaxation loop: waive the pinned row Head(try_order)
PhaseC ==
    /\ pc = "phaseC"
    /\ pt.try_order # <<>>
    /\ PhaseCRun(Head(pt.try_order),
          PinsWithout(pt.pinned_forced_ids, Head(pt.try_order), pt.rows, pt.assignment,
                      [sched |-> FreshSchedules(pt.rooms), assign |-> << >>]))
    /\ UNCHANGED <<calVars, inVars, sideVars, rt_queue, assigned_rows,
                   unassigned_rows>>

\* still infeasible: report the rows that remain unassigned
PhaseFail ==
    /\ pc = "fail"
    /\ ret' = [phase |-> "fail", assignment |-> pt.assignment,
               waived_forced |-> pt.waived_forced,
               unassigned |-> Remainder(pt.rows, pt.assignment)]
    /\ log' = Append(log, <<"could_not_assign", pt.rt,
                            Len(Remainder(pt.rows, pt.assignment))>>)
    /\ pc' = "commit"
    /\ UNCHANGED <<calVars, inVars, sideVars, rt_queue, pt, assigned_rows,
                   unassigned_rows>>

CommitSet(rt, acc) ==
    /\ room_calendars' = acc.cal
    /\ assigned_rows' = acc.assigned
    /\ unassigned_rows' = acc.unassigned
    /\ log' = SummaryLog(acc.log, rt, ret)

\* assign_rooms takes the per-type result: reserve, collect rows, log
Commit ==
    /\ pc = "commit"
    /\ CommitSet(Head(rt_queue),
          CommitRows(1, RowsOfType(families_df, Head(rt_queue)), Head(rt_queue), ret,
              [cal |-> room_calendars, assigned |-> assigned_rows,
               unassigned |-> unassigned_rows, log |-> log]))
    /\ rt_queue' = Tail(rt_queue)
    /\ pt' = NoPt
    /\ ret' = NoPt
    /\ pc' = "loop"
    /\ UNCHANGED <<cal_last, cal_count, inVars, sideVars>>

AssignRoomsReturn ==
    /\ pc = "loop"
    /\ rt_queue = <<>>
    /\ pc' = "done"
    /\ UNCHANGED <<calVars, inVars, sideVars, rt_queue, pt, ret, assigned_rows,
                   unassigned_rows, log>>

NextLegacy ==
    \/ AssignRoomsBegin
    \/ TypeNoRooms
    \/ PhaseA
    \/ PhaseB
    \/ PhaseC
    \/ PhaseFail
    \/ Commit
    \/ AssignRoomsReturn

\* the catalog rows of one type for a set of labels, listed in descending order
RECURSIVE CatalogRows(_, _, _)
CatalogRows(S, rt, n) ==
    IF n = 0 THEN <<>>
    ELSE IF LabelList[n] \in S
         THEN <<[room |-> LabelList[n], room_type |-> rt]>> \o CatalogRows(S, rt, n - 1)
         ELSE CatalogRows(S, rt, n - 1)

Families == {"A", "B"}

BookingRowsOf(fams, types, forcedVals) ==
    { [family |-> f, room_type |-> t, check_in |-> iv[1], check_out |-> iv[2],
       forced_room |-> fr] :
        f \in fams, t \in types, iv \in ProperIntervals, fr \in forcedVals }

BookingRows(types, forcedVals) == BookingRowsOf(Families, types, forcedVals)

BookingLists(types, forcedVals, maxRows) ==
    UNION { [1..n -> BookingRows(types, forcedVals)] : n \in 1..maxRows }

\* one room type, every booking list up to MaxRows rows
InitPT ==
    /\ room_calendars = << >>
    /\ cal_last = NoCall
    /\ cal_count = 0
    /\ families_df \in BookingLists({"T1"}, {""} \cup RoomLabels, MaxRows)
    /\ rooms_df \in { CatalogRows(S, "T1", Len(LabelList)) : S \in SUBSET RoomLabels }
    /\ pc = "start"
    /\ rt_queue = <<>>
    /\ pt = NoPt
    /\ ret = NoPt
    /\ assigned_rows = <<>>
    /\ unassigned_rows = <<>>
    /\ log = <<>>
    /\ raised = "none"
    /\ global_assigned = << >>
    /\ val_out = NoVal
    /\ diag_out = NoDiag

SpecPT == InitPT /\ [][NextLegacy]_vars

\* two room types: T1 with any rooms, T2 with at most the last label, so that
\* one label is shared and the others exist under T1 only
TwoTypeInputs ==
    /\ families_df \in UNION { [1..n -> BookingRowsOf({"A"}, RoomTypes,
                                               {""} \cup RoomLabels)] : n \in 1..MaxRows }
    /\ rooms_df \in { CatalogRows(S1, "T1", Len(LabelList))
                         \o CatalogRows(S2, "T2", Len(LabelList)) :
                       S1 \in SUBSET RoomLabels, S2 \in SUBSET {LabelList[MaxRooms]} }
    /\ room_calendars = << >>
    /\ cal_last = NoCall
    /\ cal_count = 0
    /\ rt_queue = <<>>
    /\ pt = NoPt
    /\ ret = NoPt
    /\ assigned_rows = <<>>
    /\ unassigned_rows = <<>>
    /\ log = <<>>
    /\ raised = "none"
    /\ global_assigned = << >>
    /\ val_out = NoVal
    /\ diag_out = NoDiag

\* pinned bookings of one night each and bookings of the whole period
PinDateStrs == { DateList[i] : i \in 1..PinDates }

PinRowChoices ==
    { [family |-> "A", room_type |-> "T1", check_in |-> DateList[k],
       check_out |-> DateList[k + 1], forced_room |-> fr] :
        k \in 1..(PinDates - 1), fr \in RoomLabels }
      \cup { [family |-> "A", room_type |-> "T1", check_in |-> DateList[1],
              check_out |-> DateList[PinDates], forced_room |-> ""] }

InitPins ==
    /\ families_df \in UNION { [1..n -> PinRowChoices] : n \in 1..PinRows }
    /\ rooms_df \in { CatalogRows(S, "T1", Len(LabelList)) : S \in {{}, RoomLabels} }
    /\ room_calendars = << >>
    /\ cal_last = NoCall
    /\ cal_count = 0
    /\ pc = "start"
    /\ rt_queue = <<>>
    /\ pt = NoPt
    /\ ret = NoPt
    /\ assigned_rows = <<>>
    /\ unassigned_rows = <<>>
    /\ log = <<>>
    /\ raised = "none"
    /\ global_assigned = << >>
    /\ val_out = NoVal
    /\ diag_out = NoDiag

SpecPins == InitPins /\ [][NextLegacy]_vars

InitOrch == TwoTypeInputs /\ pc = "start"

SpecOrch == InitOrch /\ [][NextLegacy]_vars

-----------------------------------------------------------------------------
(* Public solve: logic/solver.py *)
(* The room types of the model are not field types (is_field_type is false *)
(* for them), so score_candidate's field block is not entered; the wall     *)
(* clock budget is taken not to run out, the node budget is counted.        *)

\* the Booking objects built from the rows (forced_room "" stands for None)
Bookings(fam) ==
    [i \in DOMAIN fam |->
        [idx |-> i, family |-> fam[i].family, room_type |-> fam[i].room_type,
         check_in |-> fam[i].check_in, check_out |-> fam[i].check_out,
         forced_room |-> fam[i].forced_room]]

\* forced_pos + nonforced: positions of the bookings, forced ones first
DepthOrder(bookings) ==
    SelectSeq(Idxs(Len(bookings)), LAMBDA i : bookings[i].forced_room # "")
      \o SelectSeq(Idxs(Len(bookings)), LAMBDA i : bookings[i].forced_room = "")

\* calendars / family_serial_memory are defaultdict(list)
ListOf(d, k) == IF k \in DOMAIN d THEN d[k] ELSE <<>>

\* feasible(b, rm): both dates parse and no stored interval of the room overlaps
Feasible(b, rm, calendars) ==
    /\ ParseOk(b.check_in)
    /\ ParseOk(b.check_out)
    /\ \A i \in DOMAIN ListOf(calendars, rm.room) :
          ~ (ParseDate(b.check_in) < ListOf(calendars, rm.room)[i][2]
               /\ ListOf(calendars, rm.room)[i][1] < ParseDate(b.check_out))

\* the feasible rooms of the booking's type, cut down to the forced room
FeasRooms(b, rooms, calendars) ==
    SelectSeq(rooms, LAMBDA rm :
        /\ rm.room_type = b.room_type
        /\ Feasible(b, rm, calendars)
        /\ (b.forced_room # "" => rm.room = b.forced_room))

ForcedPenalty(b, rm, waive_forced) ==
    IF ~ waive_forced /\ b.forced_room # ""
    THEN (IF rm.room # b.forced_room THEN 5 ELSE -10)
    ELSE 0

SerialPenalty(b, rm, memory, waive_serial) ==
    IF ~ waive_serial /\ ListOf(memory, b.family) # <<>>
    THEN (IF AreSerial(Last(ListOf(memory, b.family)), rm.room) THEN -3 ELSE 1)
    ELSE 0

\* is_field_type: the type name holds "field", "camp", "pitch" or the Hebrew word
IsFieldType(room_type) == room_type \in {"field"}

\* field_area_id: area 1 = 1..5, area 2 = 6..18, 0 stands for None
FieldAreaId(num) ==
    IF num >= 1 /\ num <= 5 THEN 1 ELSE IF num >= 6 /\ num <= 18 THEN 2 ELSE 0

\* field_target_set(group_size); <<>> stands for None
FieldTargetSet(group_size) ==
    CASE group_size = 5 -> <<1, 2, 3, 4, 5>>
      [] group_size = 3 -> <<12, 13, 14>>
      [] group_size = 2 -> <<16, 18>>
      [] group_size = 1 -> <<8, 12, 17, 1, 18>>
      [] OTHER -> <<>>

PROHIBITED_SINGLE_ROOMS == {2, 3, 4, 5, 15}

FIELD_CLUSTERS == << {2, 3}, {9, 10, 11}, {10, 11}, {13, 14}, {16, 18} >>

LAST_PRIORITY_ROOM == 15

\* the key of the field group of a booking
GroupKey(b) == <<b.family, b.room_type, b.check_in, b.check_out>>

\* build_field_groups, with assigned_numbers and chosen_area as the search
\* resets them (chosen_area 0 stands for None)
BuildFieldGroups(bookings) ==
    [key \in { GroupKey(bookings[i]) :
                 i \in { j \in DOMAIN bookings : IsFieldType(bookings[j].room_type) } } |->
        [size |-> Cardinality({ j \in DOMAIN bookings : GroupKey(bookings[j]) = key }),
         target_set |-> FieldTargetSet(
             Cardinality({ j \in DOMAIN bookings : GroupKey(bookings[j]) = key })),
         assigned_numbers |-> {},
         chosen_area |-> 0]]

AssignedAreas(meta) == { FieldAreaId(n) : n \in meta.assigned_numbers }

\* `chosen` of score_candidate: chosen_area, or the one area of the assigned
\* numbers when chosen_area is None
ResolvedArea(meta) ==
    IF meta.chosen_area # 0 THEN meta.chosen_area
    ELSE IF Cardinality(AssignedAreas(meta)) = 1
    THEN CHOOSE a \in AssignedAreas(meta) : TRUE
    ELSE 0

AreaPenalty(meta, area) ==
    IF meta.size > 1 /\ meta.assigned_numbers # {}
          /\ ResolvedArea(meta) # 0 /\ area # 0
    THEN (IF area # ResolvedArea(meta) THEN 6 ELSE -2)
    ELSE 0

TargetPenalty(meta, num, area) ==
    IF meta.target_set = <<>> THEN 0
    ELSE IF \E i \in DOMAIN meta.target_set : meta.target_set[i] = num
    THEN 0 - (13 - (CHOOSE i \in DOMAIN meta.target_set : meta.target_set[i] = num))
    ELSE IF { FieldAreaId(meta.target_set[i]) : i \in DOMAIN meta.target_set } = {area}
              /\ area # 0
    THEN -1
    ELSE 0

SinglePenalty(meta, num) ==
    IF meta.size = 1
    THEN (IF num \in PROHIBITED_SINGLE_ROOMS THEN 50 ELSE 0)
           + (IF num = LAST_PRIORITY_ROOM THEN 100 ELSE 0)
    ELSE 0

ClusterHit(assigned, num, cluster) ==
    IF assigned \cap cluster # {}
          /\ \/ (num \in cluster /\ \E a \in assigned : a \notin cluster)
             \/ num \notin cluster
    THEN 30 ELSE 0

ClusterPenalty(meta, num) ==
    ClusterHit(meta.assigned_numbers, num, FIELD_CLUSTERS[1])
      + ClusterHit(meta.assigned_numbers, num, FIELD_CLUSTERS[2])
      + ClusterHit(meta.assigned_numbers, num, FIELD_CLUSTERS[3])
      + ClusterHit(meta.assigned_numbers, num, FIELD_CLUSTERS[4])
      + ClusterHit(meta.assigned_numbers, num, FIELD_CLUSTERS[5])

\* the field preferences and cluster rules of score_candidate
FieldPenalty(b, rm, groups) ==
    IF IsFieldType(b.room_type) /\ GroupKey(b) \in DOMAIN groups
    THEN AreaPenalty(groups[GroupKey(b)], FieldAreaId(RoomNum(rm.room)))
           + TargetPenalty(groups[GroupKey(b)], RoomNum(rm.room),
                           FieldAreaId(RoomNum(rm.room)))
           + SinglePenalty(groups[GroupKey(b)], RoomNum(rm.room))
           + ClusterPenalty(groups[GroupKey(b)], RoomNum(rm.room))
    ELSE 0

\* score_candidate(...)[0]
ScoreCandidate(b, rm, memory, groups, kw) ==
    IF ~ kw.use_soft THEN 0
    ELSE ForcedPenalty(b, rm, kw.waive_forced)
           + SerialPenalty(b, rm, memory, kw.waive_serial)
           + FieldPenalty(b, rm, groups)

\* the groups after a call of score_candidate for booking b: it stores
\* `chosen` in meta["chosen_area"] when that was None
ScoreWrites(b, groups, kw) ==
    IF kw.use_soft /\ IsFieldType(b.room_type) /\ GroupKey(b) \in DOMAIN groups
          /\ groups[GroupKey(b)].size > 1
          /\ groups[GroupKey(b)].assigned_numbers # {}
          /\ groups[GroupKey(b)].chosen_area = 0
          /\ Cardinality(AssignedAreas(groups[GroupKey(b)])) = 1
    THEN [groups EXCEPT ![GroupKey(b)].chosen_area = ResolvedArea(groups[GroupKey(b)])]
    ELSE groups

\* the placement in the group of the booking: assigned_numbers.add(num), and
\* chosen_area = field_area_id(num) when it was None
PlaceInGroup(groups, b, rm) ==
    IF IsFieldType(b.room_type) /\ GroupKey(b) \in DOMAIN groups /\ RoomNum(rm.room) >= 0
    THEN [groups EXCEPT
            ![GroupKey(b)].assigned_numbers = @ \cup {RoomNum(rm.room)},
            ![GroupKey(b)].chosen_area =
                IF @ = 0 THEN FieldAreaId(RoomNum(rm.room)) ELSE @]
    ELSE groups

\* the undo in the group of the booking: assigned_numbers.remove(num)
UnplaceInGroup(groups, b, rm) ==
    IF IsFieldType(b.room_type) /\ GroupKey(b) \in DOMAIN groups /\ RoomNum(rm.room) >= 0
    THEN [groups EXCEPT ![GroupKey(b)].assigned_numbers = @ \ {RoomNum(rm.room)}]
    ELSE groups

\* the positions still without a room, in depth order
OpenPositions(bookings, current_map) ==
    SelectSeq(DepthOrder(bookings), LAMBDA pos : bookings[pos].idx \notin DOMAIN current_map)

\* mrv_list.sort(); mrv_list[0]: fewest feasible rooms, then smallest position
MrvPick(bookings, rooms, open, calendars) ==
    CHOOSE pos \in SeqToSet(open) :
        \A o \in SeqToSet(open) :
            \/ Len(FeasRooms(bookings[pos], rooms, calendars))
                  < Len(FeasRooms(bookings[o], rooms, calendars))
            \/ /\ Len(FeasRooms(bookings[pos], rooms, calendars))
                    = Len(FeasRooms(bookings[o], rooms, calendars))
               /\ pos <= o

\* scored.sort(key=lambda x: x[0]): the feasible rooms by penalty, stable
OrderedRooms(b, feas, memory, groups, kw) ==
    Permute(feas, SortIdx(Len(feas),
        [k \in DOMAIN feas |-> ScoreCandidate(b, feas[k], memory, groups, kw)]))

\* the best-so-far rule at the top of backtrack
KeepBestMap(st, current_map, current_pen) ==
    IF \/ Cardinality(DOMAIN current_map) > Cardinality(DOMAIN st.best_map)
       \/ /\ Cardinality(DOMAIN current_map) = Cardinality(DOMAIN st.best_map)
          /\ current_pen < st.best_penalty
    THEN [st EXCEPT !.best_map = current_map, !.best_penalty = current_pen]
    ELSE st

\* current_map[bid] = rm.room; calendars[rm.room].append; memory.append; the
\* field group of the booking
PlaceRoom(st, b, rm) ==
    [st EXCEPT
       !.current_map = PutKey(@, b.idx, rm.room),
       !.calendars = PutKey(@, rm.room,
            Append(ListOf(@, rm.room), <<ParseDate(b.check_in), ParseDate(b.check_out)>>)),
       !.memory = PutKey(@, b.family, Append(ListOf(@, b.family), rm.room)),
       !.groups = PlaceInGroup(@, b, rm)]

\* the contents of the mutable objects: a key of a defaultdict that holds the
\* empty list reads like a key that is not there
SearchObjects(st) ==
    [calendars |-> [k \in { x \in DOMAIN st.calendars : st.calendars[x] # <<>> } |->
                      st.calendars[k]],
     memory |-> [k \in { x \in DOMAIN st.memory : st.memory[x] # <<>> } |-> st.memory[k]],
     current_map |-> st.current_map,
     groups |-> [k \in DOMAIN st.groups |->
                   [assigned_numbers |-> st.groups[k].assigned_numbers,
                    chosen_area |-> st.groups[k].chosen_area]],
     branch_groups |-> st.branch_groups]

\* history of the run, kept beside the locals: the size of the largest map a
\* placement built while explored_nodes was below node_limit, and of the
\* largest map a placement built once explored_nodes had reached it (0: none);
\* the trail holds what the objects held before each placement not yet undone
NotePlacement(before, after, node_limit) ==
    IF before.explored_nodes >= node_limit
    THEN [after EXCEPT !.placed_late = Max2(@, Cardinality(DOMAIN after.current_map)),
                       !.trail = Append(@, SearchObjects(before))]
    ELSE [after EXCEPT !.placed_in_budget = Max2(@, Cardinality(DOMAIN after.current_map)),
                       !.trail = Append(@, SearchObjects(before))]

\* history of the run: branch_groups are the field groups as the placements
\* of the current branch alone make them (the same updates, and at an undo
\* the value from before the placement)
NoteBranch(st, b, rm) ==
    [st EXCEPT !.branch_groups = PlaceInGroup(@, b, rm)]

\* history of the run: a call of score_candidate for booking b; score_pure
\* tells whether every call so far left the groups as they were, order_kept
\* whether every candidate order so far is the one the current branch alone
\* gives
NoteScore(st, b, feas, kw) ==
    [st EXCEPT
       !.score_pure = @ /\ (feas = <<>> \/ ScoreWrites(b, st.groups, kw) = st.groups),
       !.order_kept = @ /\ OrderedRooms(b, feas, st.memory, st.groups, kw)
                             = OrderedRooms(b, feas, st.memory, st.branch_groups, kw),
       !.groups = IF feas = <<>> THEN @ ELSE ScoreWrites(b, @, kw),
       !.branch_groups = IF feas = <<>> THEN @ ELSE ScoreWrites(b, @, kw)]

\* calendars[rm.room].pop(); memory[b.family].pop(); the field group of the
\* booking; del current_map[bid]
UnplaceRoom(st, b, rm) ==
    [st EXCEPT !.calendars[rm.room] = Front(@), !.memory[b.family] = Front(@),
               !.groups = UnplaceInGroup(@, b, rm),
               !.current_map = DropKey(@, b.idx)]

\* history of the run: after an undo the objects are compared with what they
\* held before the placement that is undone (the top of the trail)
NoteUndo(st) ==
    [st EXCEPT
       !.undone_exactly = @ /\ st.trail # <<>>
                            /\ SearchObjects(st).calendars = Last(st.trail).calendars
                            /\ SearchObjects(st).current_map = Last(st.trail).current_map,
       !.memory_restored = @ /\ st.trail # <<>>
                             /\ SearchObjects(st).memory = Last(st.trail).memory,
       !.groups_restored = @ /\ st.trail # <<>>
                             /\ SearchObjects(st).groups = Last(st.trail).groups,
       !.branch_groups = IF st.trail = <<>> THEN @ ELSE Last(st.trail).branch_groups,
       !.undone = @ + 1,
       !.trail = IF st.trail = <<>> THEN <<>> ELSE Front(st.trail)]

\* backtrack(depth, current_map, current_pen); st carries calendars, memory,
\* best_map, best_penalty, explored_nodes, timed_out; the result is
\* [none, map, st] (none: the call returned None)
RECURSIVE SearchBacktrack(_, _, _, _, _, _)
RECURSIVE SearchNode(_, _, _, _, _, _, _)
RECURSIVE SearchRooms(_, _, _, _, _, _, _, _)
RECURSIVE SearchAfter(_, _, _, _, _, _, _, _, _)
RECURSIVE SearchDone(_, _, _, _, _, _, _, _)
SearchBacktrack(bookings, rooms, kw, current_map, current_pen, st) ==
    IF st.explored_nodes >= kw.node_limit
    THEN [none |-> TRUE, map |-> << >>, st |-> [st EXCEPT !.timed_out = TRUE]]
    ELSE IF Cardinality(DOMAIN current_map) = Len(bookings)
    THEN [none |-> FALSE, map |-> current_map,
          st |-> KeepBestMap(st, current_map, current_pen)]
    ELSE SearchNode(bookings, rooms, kw, current_map, current_pen,
            [KeepBestMap(st, current_map, current_pen) EXCEPT !.explored_nodes = @ + 1],
            MrvPick(bookings, rooms, OpenPositions(bookings, current_map), st.calendars))

SearchNode(bookings, rooms, kw, current_map, current_pen, st, pos) ==
    SearchRooms(bookings, rooms, kw, current_map, current_pen,
        NoteScore(st, bookings[pos], FeasRooms(bookings[pos], rooms, st.calendars), kw),
        pos,
        OrderedRooms(bookings[pos],
                     FeasRooms(bookings[pos], rooms, st.calendars), st.memory,
                     st.groups, kw))

\* the `for rm in ordered_rooms` loop
SearchRooms(bookings, rooms, kw, current_map, current_pen, st, pos, ordered) ==
    IF ordered = <<>> THEN [none |-> TRUE, map |-> << >>, st |-> st]
    ELSE SearchAfter(bookings, rooms, kw, current_map, current_pen, pos, ordered,
            NoteBranch(
                NotePlacement(st, PlaceRoom(st, bookings[pos], Head(ordered)), kw.node_limit),
                bookings[pos], Head(ordered)),
            PutKey(current_map, bookings[pos].idx, Head(ordered).room))

SearchAfter(bookings, rooms, kw, current_map, current_pen, pos, ordered, st1, map1) ==
    SearchDone(bookings, rooms, kw, current_map, current_pen, pos, ordered,
        SearchBacktrack(bookings, rooms, kw, map1,
            current_pen + ScoreCandidate(bookings[pos], Head(ordered), st1.memory,
                                         st1.groups, kw),
            NoteScore(st1, bookings[pos], <<Head(ordered)>>, kw)))

\* after the recursive call: return a complete result, else undo and go on
SearchDone(bookings, rooms, kw, current_map, current_pen, pos, ordered, res) ==
    IF ~ res.none /\ Cardinality(DOMAIN res.map) = Len(bookings) THEN res
    ELSE IF res.st.explored_nodes >= kw.node_limit
    THEN [none |-> TRUE, map |-> << >>,
          st |-> [NoteUndo(UnplaceRoom(res.st, bookings[pos], Head(ordered))) EXCEPT
                    !.timed_out = TRUE]]
    ELSE SearchRooms(bookings, rooms, kw, current_map, current_pen,
            NoteUndo(UnplaceRoom(res.st, bookings[pos], Head(ordered))), pos, Tail(ordered))

SearchResult(bookings, res) ==
    [found_map |-> IF ~ res.none /\ DOMAIN res.map # {} THEN res.map
                   ELSE res.st.best_map,
     complete |-> ~ res.none /\ Cardinality(DOMAIN res.map) = Len(bookings),
     explored |-> res.st.explored_nodes,
     timed_out |-> res.st.timed_out]

\* full = backtrack(0, {}, 0) on fresh locals
SearchRun(bookings, rooms, kw) ==
    SearchBacktrack(bookings, rooms, kw, << >>, 0,
        [calendars |-> << >>, memory |-> << >>, best_map |-> << >>,
         best_penalty |-> InfPenalty, explored_nodes |-> 0, timed_out |-> FALSE,
         current_map |-> << >>, placed_in_budget |-> 0, placed_late |-> 0,
         groups |-> BuildFieldGroups(bookings),
         branch_groups |-> BuildFieldGroups(bookings),
         trail |-> <<>>, undone |-> 0, undone_exactly |-> TRUE,
         memory_restored |-> TRUE, groups_restored |-> TRUE, score_pure |-> TRUE,
         order_kept |-> TRUE])

\* the body of _search_assignments, its keyword arguments in kw
SearchAssignments(bookings, rooms, kw) ==
    SearchResult(bookings, SearchRun(bookings, rooms, kw))

\* the keyword-only parameters of _search_assignments; none has a default
SearchKwOnly ==
    {"waive_serial", "waive_forced", "time_limit_sec", "node_limit", "log", "use_soft"}

\* the call: a required keyword that is not passed makes the call raise
\* TypeError before the body runs
CallSearchAssignments(bookings, rooms, kw) ==
    IF SearchKwOnly \ DOMAIN kw # {}
    THEN [raised |-> "TypeError"]
    ELSE [raised |-> "none", value |-> SearchAssignments(bookings, rooms, kw)]

\* the relaxation ladder of one type: (waive_serial, waive_forced) per rung
LadderRungs ==
    << [waive_serial |-> TRUE, waive_forced |-> FALSE],
       [waive_serial |-> FALSE, waive_forced |-> FALSE],
       [waive_serial |-> TRUE, waive_forced |-> TRUE] >>

\* the keyword arguments assign_rooms passes to _search_assignments
SearchCallKw(rung, t_per, n_per) ==
    [waive_serial |-> rung.waive_serial, waive_forced |-> rung.waive_forced,
     time_limit_sec |-> t_per, node_limit |-> n_per, log |-> "log"]

\* the bookkeeping after one search returned
LadderTake(acc, rt, bk, v) ==
    [acc EXCEPT
       !.log = Append(@, <<"search_result", rt, v.explored, v.timed_out,
                           Cardinality(DOMAIN v.found_map), Len(bk), v.complete>>),
       !.best_map = IF Cardinality(DOMAIN v.found_map) > Cardinality(DOMAIN @)
                    THEN v.found_map ELSE @,
       !.best_complete = IF Cardinality(DOMAIN v.found_map) > Cardinality(DOMAIN acc.best_map)
                         THEN v.complete ELSE @]

\* the ladder loop; acc holds best_map, best_complete, the log and an
\* exception that left the loop
RECURSIVE Ladder(_, _, _, _, _, _)
RECURSIVE LadderStep(_, _, _, _, _, _, _)
Ladder(rungs, rt, bk, rms, budget, acc) ==
    IF rungs = <<>> THEN acc
    ELSE LadderStep(rungs, rt, bk, rms, budget,
            [acc EXCEPT !.log = Append(@, <<"start_search", rt, Head(rungs).waive_serial,
                                            Head(rungs).waive_forced, budget.n_per>>)],
            CallSearchAssignments(bk, rms,
                SearchCallKw(Head(rungs), budget.t_per, budget.n_per)))

LadderStep(rungs, rt, bk, rms, budget, acc, call) ==
    IF call.raised # "none" THEN [acc EXCEPT !.raised = call.raised]
    ELSE IF call.value.complete
    THEN LadderTake(acc, rt, bk, call.value)
    ELSE Ladder(Tail(rungs), rt, bk, rms, budget, LadderTake(acc, rt, bk, call.value))

\* bookings / rooms of one entry of rt_list
PerTypeBookings(bookings, rt) ==
    IF rt = "<all>" THEN bookings ELSE SelectSeq(bookings, LAMBDA b : b.room_type = rt)

PerTypeRooms(rdf, rt) ==
    IF rt = "<all>" THEN rdf ELSE SelectSeq(rdf, LAMBDA r : r.room_type = rt)

\* sorted(bookings_by_type.keys()), or ["<all>"]
RtList(fam, solve_per_type) ==
    IF solve_per_type
    THEN TypesSorted([i \in DOMAIN fam |-> fam[i].room_type])
    ELSE <<"<all>">>

\* t_per and n_per
Budget(rt_list) ==
    [t_per |-> Max2(TimeLimitSec \div Max2(1, Len(rt_list)), MinTimeSec),
     n_per |-> Max2(NodeLimit \div Max2(1, Len(rt_list)), MinNodes)]

\* dict.update
UpdateMap(d, e) == [k \in DOMAIN d \cup DOMAIN e |-> IF k \in DOMAIN e THEN e[k] ELSE d[k]]

SolveBegin ==
    /\ pc = "s_start"
    /\ \E solve_per_type \in BOOLEAN :
          /\ rt_queue' = RtList(families_df, solve_per_type)
          /\ pt' = [phase |-> "solve", solve_per_type |-> solve_per_type,
                    budget |-> Budget(RtList(families_df, solve_per_type))]
    /\ global_assigned' = << >>
    /\ pc' = "s_loop"
    /\ UNCHANGED <<calVars, inVars, ret, assigned_rows, unassigned_rows, log,
                   raised, val_out, diag_out>>

\* `if not bk: continue` and the type without rooms
SolveSkip ==
    /\ pc = "s_loop"
    /\ rt_queue # <<>>
    /\ \/ PerTypeBookings(Bookings(families_df), Head(rt_queue)) = <<>>
       \/ PerTypeRooms(rooms_df, Head(rt_queue)) = <<>>
    /\ log' = IF PerTypeBookings(Bookings(families_df), Head(rt_queue)) = <<>> THEN log
              ELSE Append(log, <<"no_rooms_available", Head(rt_queue)>>)
    /\ rt_queue' = Tail(rt_queue)
    /\ UNCHANGED <<calVars, inVars, pc, pt, ret, assigned_rows, unassigned_rows,
                   raised, global_assigned, val_out, diag_out>>

SolveTake(r) ==
    IF r.raised # "none"
    THEN /\ raised' = r.raised
         /\ pc' = "s_raised"
         /\ log' = r.log
         /\ UNCHANGED <<rt_queue, global_assigned>>
    ELSE /\ global_assigned' = UpdateMap(global_assigned, r.best_map)
         /\ rt_queue' = Tail(rt_queue)
         /\ log' = r.log
         /\ UNCHANGED <<raised, pc>>

\* one type with bookings and rooms: the ladder of searches
SolveSearch ==
    /\ pc = "s_loop"
    /\ rt_queue # <<>>
    /\ PerTypeBookings(Bookings(families_df), Head(rt_queue)) # <<>>
    /\ PerTypeRooms(rooms_df, Head(rt_queue)) # <<>>
    /\ SolveTake(Ladder(LadderRungs, Head(rt_queue),
                        PerTypeBookings(Bookings(families_df), Head(rt_queue)),
                        PerTypeRooms(rooms_df, Head(rt_queue)), pt.budget,
                        [best_map |-> << >>, best_complete |-> FALSE, log |-> log,
                         raised |-> "none"]))
    /\ UNCHANGED <<calVars, inVars, pt, ret, assigned_rows, unassigned_rows, val_out,
                   diag_out>>

\* the output row of one booking
SolveRow(b, room) ==
    [idx |-> b.idx, id |-> b.idx, family |-> b.family, room_type |-> b.room_type,
     check_in |-> b.check_in, check_out |-> b.check_out,
     forced_room |-> b.forced_room, room |-> room]

\* the loop that splits the bookings into assigned and unassigned rows
SolveReturn ==
    /\ pc = "s_loop"
    /\ rt_queue = <<>>
    /\ assigned_rows' =
          [k \in DOMAIN SelectSeq(Bookings(families_df),
                                  LAMBDA b : ListOf(global_assigned, b.idx) # <<>>) |->
              SolveRow(SelectSeq(Bookings(families_df),
                                 LAMBDA b : ListOf(global_assigned, b.idx) # <<>>)[k],
                       global_assigned[SelectSeq(Bookings(families_df),
                                 LAMBDA b : ListOf(global_assigned, b.idx) # <<>>)[k].idx])]
    /\ unassigned_rows' =
          [k \in DOMAIN SelectSeq(Bookings(families_df),
                                  LAMBDA b : ListOf(global_assigned, b.idx) = <<>>) |->
              SolveRow(SelectSeq(Bookings(families_df),
                                 LAMBDA b : ListOf(global_assigned, b.idx) = <<>>)[k], "")]
    /\ pc' = "s_done"
    /\ UNCHANGED <<calVars, inVars, rt_queue, pt, ret, log, raised, global_assigned,
                   val_out, diag_out>>

NextSolve ==
    \/ SolveBegin
    \/ SolveSkip
    \/ SolveSearch
    \/ SolveReturn

InitSolve == TwoTypeInputs /\ pc = "s_start"

SpecSolve == InitSolve /\ [][NextSolve]_vars

-----------------------------------------------------------------------------
(* The last rung of the ladder on its own: _search_assignments with         *)
(* waive_serial = True and waive_forced = True, and with the keyword         *)
(* use_soft of its signature supplied (either value).                        *)

\* the keyword arguments of the last rung, use_soft added
LastRungKw(budget, use_soft) ==
    PutKey(SearchCallKw(LadderRungs[Len(LadderRungs)], budget.t_per, budget.n_per),
           "use_soft", use_soft)

\* found_map, complete, explored, timed_out = _search_assignments(bk, rms, ...)
SearchLastRung ==
    /\ pc = "rung"
    /\ ret' = CallSearchAssignments(
                  PerTypeBookings(Bookings(families_df), Head(rt_queue)),
                  PerTypeRooms(rooms_df, Head(rt_queue)),
                  LastRungKw(Budget(rt_queue), pt.use_soft))
    /\ pc' = "rung_done"
    /\ UNCHANGED <<calVars, inVars, rt_queue, pt, assigned_rows, unassigned_rows,
                   log, raised, global_assigned, val_out, diag_out>>

NextLastRung == SearchLastRung

\* one type with rooms 1..RungRooms, up to RungRows bookings of it, each
\* unforced, forced to room 1, or forced to a label the type does not have
InitLastRung ==
    /\ room_calendars = << >>
    /\ cal_last = NoCall
    /\ cal_count = 0
    /\ rooms_df = CatalogRows({ LabelList[i] : i \in 1..RungRooms }, "T1", RungRooms)
    /\ families_df \in UNION { [1..n -> BookingRows({"T1"}, {"", "1", LabelList[RungRooms + 1]})] :
                                 n \in 1..RungRows }
    /\ pc = "rung"
    /\ rt_queue = <<"T1">>
    /\ pt \in { [phase |-> "last_rung", use_soft |-> u] : u \in BOOLEAN }
    /\ ret = NoPt
    /\ assigned_rows = <<>>
    /\ unassigned_rows = <<>>
    /\ log = <<>>
    /\ raised = "none"
    /\ global_assigned = << >>
    /\ val_out = NoVal
    /\ diag_out = NoDiag

SpecLastRung == InitLastRung /\ [][NextLastRung]_vars

-----------------------------------------------------------------------------
(* One search with a small node budget: _search_assignments with node_limit *)
(* from 1 to MaxNodeLimit and every setting of the three switches.          *)

\* the keyword arguments of the call
BudgetKw ==
    { [waive_serial |-> ws, waive_forced |-> wf, time_limit_sec |-> TimeLimitSec,
       node_limit |-> n, log |-> "log", use_soft |-> us] :
        ws \in BOOLEAN, wf \in BOOLEAN, us \in BOOLEAN, n \in 1..MaxNodeLimit }

\* what the call returned, and beside it the placement history of the run
SearchCallSet(run) ==
    ret' = [raised |-> "none",
            value |-> SearchResult(PerTypeBookings(Bookings(families_df), Head(rt_queue)), run),
            placed_in_budget |-> run.st.placed_in_budget,
            placed_late |-> run.st.placed_late,
            undone |-> run.st.undone,
            undone_exactly |-> run.st.undone_exactly,
            memory_restored |-> run.st.memory_restored,
            groups_restored |-> run.st.groups_restored,
            score_pure |-> run.st.score_pure,
            order_kept |-> run.st.order_kept]

\* found_map, complete, explored, timed_out = _search_assignments(bk, rms, ...)
SearchCall ==
    /\ pc = "search"
    /\ SearchCallSet(SearchRun(PerTypeBookings(Bookings(families_df), Head(rt_queue)),
                                PerTypeRooms(rooms_df, Head(rt_queue)), pt.kw))
    /\ pc' = "search_done"
    /\ UNCHANGED <<calVars, inVars, rt_queue, pt, assigned_rows, unassigned_rows,
                   log, raised, global_assigned, val_out, diag_out>>

NextSearch == SearchCall

InitSearch ==
    /\ room_calendars = << >>
    /\ cal_last = NoCall
    /\ cal_count = 0
    /\ rooms_df = CatalogRows({ LabelList[i] : i \in 1..BudgetRooms }, "T1", BudgetRooms)
    /\ families_df \in UNION { [1..n -> BookingRows({"T1"}, {"", "1"})] : n \in 1..BudgetRows }
    /\ pc = "search"
    /\ rt_queue = <<"T1">>
    /\ pt \in { [phase |-> "search", kw |-> kw] : kw \in BudgetKw }
    /\ ret = NoPt
    /\ assigned_rows = <<>>
    /\ unassigned_rows = <<>>
    /\ log = <<>>
    /\ raised = "none"
    /\ global_assigned = << >>
    /\ val_out = NoVal
    /\ diag_out = NoDiag

SpecSearch == InitSearch /\ [][NextSearch]_vars

\* one search over a field type: rooms 5 (area 1), 6 and 7 (area 2), up to
\* FieldForcedRows bookings of two families, forced to room 5 or not, and up
\* to FieldRows bookings without forced rooms; the whole node budget
FieldCatalog ==
    << [room |-> "5", room_type |-> "field"], [room |-> "6", room_type |-> "field"],
       [room |-> "7", room_type |-> "field"] >>

FieldKw ==
    { [waive_serial |-> ws, waive_forced |-> wf, time_limit_sec |-> TimeLimitSec,
       node_limit |-> NodeLimit, log |-> "log", use_soft |-> us] :
        ws \in BOOLEAN, wf \in BOOLEAN, us \in BOOLEAN }

InitField ==
    /\ room_calendars = << >>
    /\ cal_last = NoCall
    /\ cal_count = 0
    /\ rooms_df = FieldCatalog
    /\ families_df \in UNION { [1..n -> BookingRows({"field"}, {"", "5"})] :
                                 n \in 1..FieldForcedRows }
                         \cup UNION { [1..n -> BookingRows({"field"}, {""})] :
                                        n \in 1..FieldRows }
    /\ pc = "search"
    /\ rt_queue = <<"field">>
    /\ pt \in { [phase |-> "search", kw |-> kw] : kw \in FieldKw }
    /\ ret = NoPt
    /\ assigned_rows = <<>>
    /\ unassigned_rows = <<>>
    /\ log = <<>>
    /\ raised = "none"
    /\ global_assigned = << >>
    /\ val_out = NoVal
    /\ diag_out = NoDiag

SpecField == InitField /\ [][NextSearch]_vars

-----------------------------------------------------------------------------
(* Validator: logic/validate.py, validate_constraints *)

PairRank(k) == TypeRank(k[1]) * 10 + LabelRank(k[2])

\* the keys of df.groupby(["room_type", "room"]), in sorted order
PairsSorted(vals) ==
    Permute(Dedup(vals),
            SortIdx(Len(Dedup(vals)),
                    [k \in DOMAIN Dedup(vals) |-> PairRank(Dedup(vals)[k])]))

RoomGroups(df) == PairsSorted([i \in DOMAIN df |-> <<df[i].room_type, df[i].room>>])

\* the (start, end) tuples appended for the rows of one group
ParsedIntervals(grp) ==
    [i \in DOMAIN grp |-> <<ParseDate(grp[i].check_in), ParseDate(grp[i].check_out)>>]

\* the intervals left in row order
IntervalsInRowOrder(grp) == ParsedIntervals(grp)

\* intervals.sort() on the parsed (start, end) tuples of one group
SortedIntervals(grp) ==
    Permute(ParsedIntervals(grp),
            SortIdx(Len(grp), [i \in DOMAIN grp |->
                ParseDate(grp[i].check_in) * 1000 + ParseDate(grp[i].check_out)]))

AdjacentClear(intervals) ==
    \A i \in 2..Len(intervals) :
        ~ Overlaps(intervals[i - 1][1], intervals[i - 1][2],
                   intervals[i][1], intervals[i][2])

\* one pass of the hard loop: a date that fails to parse, or an adjacent overlap
GroupHardOk(grp) ==
    IF \E i \in DOMAIN grp : ~ ParseOk(grp[i].check_in) \/ ~ ParseOk(grp[i].check_out)
    THEN FALSE
    ELSE AdjacentClear(SortedIntervals(grp))

\* the loop over the groups; it stops at the first failure
RECURSIVE HardLoop(_, _)
HardLoop(keys, df) ==
    IF keys = <<>> THEN TRUE
    ELSE IF ~ GroupHardOk(SelectSeq(df, LAMBDA r : <<r.room_type, r.room>> = Head(keys)))
    THEN FALSE
    ELSE HardLoop(Tail(keys), df)

\* rooms of one family and type are in serial order once naturally sorted
SerialOk(rooms_sorted) ==
    \A i \in 1..(Len(rooms_sorted) - 1) : AreSerial(rooms_sorted[i], rooms_sorted[i + 1])

RECURSIVE SerialNotes(_, _, _)
SerialNotes(types, family, fam_grp) ==
    IF types = <<>> THEN <<>>
    ELSE (IF Len(SelectSeq(fam_grp, LAMBDA r : r.room_type = Head(types))) > 1
             /\ ~ SerialOk(SortRooms(RoomLabelsOf(
                      SelectSeq(fam_grp, LAMBDA r : r.room_type = Head(types)))))
          THEN << <<"not_serial", family, Head(types),
                    SortRooms(RoomLabelsOf(
                        SelectSeq(fam_grp, LAMBDA r : r.room_type = Head(types))))>> >>
          ELSE <<>>)
         \o SerialNotes(Tail(types), family, fam_grp)

RECURSIVE ForcedNotes(_, _)
ForcedNotes(family, fam_grp) ==
    IF fam_grp = <<>> THEN <<>>
    ELSE (IF Head(fam_grp).forced_room # "" /\ Head(fam_grp).room # Head(fam_grp).forced_room
          THEN << <<"forced_not_met", family, Head(fam_grp).forced_room,
                    Head(fam_grp).room>> >>
          ELSE <<>>)
         \o ForcedNotes(family, Tail(fam_grp))

FamilyNotes(family, fam_grp) ==
    SerialNotes(TypesSorted([i \in DOMAIN fam_grp |-> fam_grp[i].room_type]),
                family, fam_grp)
      \o ForcedNotes(family, fam_grp)

RECURSIVE SoftLoop(_, _)
SoftLoop(fams, df) ==
    IF fams = <<>> THEN <<>>
    ELSE FamilyNotes(Head(fams), SelectSeq(df, LAMBDA r : r.family = Head(fams)))
         \o SoftLoop(Tail(fams), df)

SoftViolations(df) ==
    SoftLoop(FamiliesSorted([i \in DOMAIN df |-> df[i].family]), df)

ValidateResult(df) ==
    IF df = <<>> THEN [called |-> TRUE, hard_ok |-> TRUE, soft_violations |-> <<>>]
    ELSE [called |-> TRUE, hard_ok |-> HardLoop(RoomGroups(df), df),
          soft_violations |-> SoftViolations(df)]

\* validate_constraints(assigned_df) on the rows held in assigned_rows
validate_constraints ==
    /\ pc = "validate"
    /\ val_out' = ValidateResult(assigned_rows)
    /\ pc' = "validated"
    /\ UNCHANGED <<calVars, inVars, rt_queue, pt, ret, assigned_rows,
                   unassigned_rows, log, raised, global_assigned, diag_out>>

NextVal == validate_constraints

ValDateStrs == { DateList[i] : i \in 1..ValDates }

\* check_in / check_out pairs of a stored row: proper intervals, one empty and
\* one inverted interval, and a date that does not parse on either side
ValPairs ==
    { iv \in ValDateStrs \X ValDateStrs : ParseDate(iv[1]) < ParseDate(iv[2]) }
      \cup { <<DateList[2], DateList[2]>>, <<DateList[2], DateList[1]>>,
             <<BadDate, DateList[2]>>, <<DateList[1], BadDate>> }

ValRows ==
    { [family |-> "A", room |-> k[2], room_type |-> k[1], check_in |-> iv[1],
       check_out |-> iv[2], forced_room |-> fr] :
        k \in CalKeys, iv \in ValPairs, fr \in {"", "1"} }

InitVal ==
    /\ room_calendars = << >>
    /\ cal_last = NoCall
    /\ cal_count = 0
    /\ families_df = <<>>
    /\ rooms_df = <<>>
    /\ pc = "validate"
    /\ rt_queue = <<>>
    /\ pt = NoPt
    /\ ret = NoPt
    /\ assigned_rows \in UNION { [1..n -> ValRows] : n \in 0..MaxValRows }
    /\ unassigned_rows = <<>>
    /\ log = <<>>
    /\ raised = "none"
    /\ global_assigned = << >>
    /\ val_out = NoVal
    /\ diag_out = NoDiag

SpecVal == InitVal /\ [][NextVal]_vars

-----------------------------------------------------------------------------
(* Diagnostics: logic/diagnostics.py, explain_soft_constraints.  The room   *)
(* types of the model are none of the named types of part C (the rules for  *)
(* mixed room types), so that part adds no row.  A result row is a record;  *)
(* its reason is the kind of the sentence, its blockers the tuples that the *)
(* code joins into text.                                                    *)

\* strftime(DATE_FMT) of a parsed date
FormatDate(d) == <<((d - 1) % 31) + 1, ((d - 1) \div 31) + 1>>

\* the rows of the table on one (room_type, room)
RowsAt(df, key) == SelectSeq(df, LAMBDA r : <<r.room_type, r.room>> = key)

\* _schedules_from_df: key -> list of (start, end, family), in row order
SchedulesFromDf(df) ==
    [key \in { <<df[i].room_type, df[i].room>> : i \in DOMAIN df } |->
        [j \in DOMAIN RowsAt(df, key) |->
            <<ParseDate(RowsAt(df, key)[j].check_in),
              ParseDate(RowsAt(df, key)[j].check_out),
              RowsAt(df, key)[j].family>>]]

\* the stored triples of the key that overlap [start, end)
OverlappingOn(sched, key, start, end) ==
    SelectSeq(ListOf(sched, key), LAMBDA t : Overlaps(t[1], t[2], start, end))

\* _conflicts_on: (family, check-in text, check-out text) of every overlap
ConflictsOn(sched, room_type, room, start, end) ==
    [k \in DOMAIN OverlappingOn(sched, <<room_type, room>>, start, end) |->
        <<OverlappingOn(sched, <<room_type, room>>, start, end)[k][3],
          FormatDate(OverlappingOn(sched, <<room_type, room>>, start, end)[k][1]),
          FormatDate(OverlappingOn(sched, <<room_type, room>>, start, end)[k][2])>>]

\* _rooms_by_type_from_df(rooms_df).get(rt, [])
DiagRoomsByType(rdf, rt) ==
    SortRooms(RoomLabelsOf(SelectSeq(rdf, LAMBDA r : r.room_type = rt)))

\* seq[:n]
FirstN(seq, n) == SubSeq(seq, 1, IF Len(seq) < n THEN Len(seq) ELSE n)

\* one row of the report
ResultRow(violation, family, room_type, check_in, check_out, forced_room, assigned_room, assigned_rooms, feasible_serial_block, reason, blockers) ==
    [violation |-> violation, family |-> family, room_type |-> room_type,
     check_in |-> check_in, check_out |-> check_out, forced_room |-> forced_room,
     assigned_room |-> assigned_room, assigned_rooms |-> assigned_rooms,
     feasible_serial_block |-> feasible_serial_block, reason |-> reason,
     blockers |-> blockers]

\* the rows of the table selected by the mask (family, type and both dates)
MaskRows(assigned_df, src) ==
    SelectSeq(assigned_df, LAMBDA r :
        /\ r.family = src.family
        /\ r.room_type = src.room_type
        /\ r.check_in = src.check_in
        /\ r.check_out = src.check_out)

\* reason and blockers of a forced room that was not met
ForcedReason(src, sched, rdf, assigned_room) ==
    IF src.forced_room \notin SeqToSet(DiagRoomsByType(rdf, src.room_type))
    THEN ResultRow("forced_not_met", src.family, src.room_type, src.check_in,
                   src.check_out, src.forced_room, assigned_room, <<>>, <<>>,
                   "does_not_exist", <<>>)
    ELSE IF ConflictsOn(sched, src.room_type, src.forced_room,
                        ParseDate(src.check_in), ParseDate(src.check_out)) # <<>>
    THEN ResultRow("forced_not_met", src.family, src.room_type, src.check_in,
                   src.check_out, src.forced_room, assigned_room, <<>>, <<>>,
                   "occupied",
                   FirstN(ConflictsOn(sched, src.room_type, src.forced_room,
                              ParseDate(src.check_in), ParseDate(src.check_out)), 4))
    ELSE ResultRow("forced_not_met", src.family, src.room_type, src.check_in,
                   src.check_out, src.forced_room, assigned_room, <<>>, <<>>,
                   "solver_relaxed", <<>>)

\* part A for one forced booking: no row, or one row
ForcedRow(src, assigned_df, sched, rdf) ==
    IF MaskRows(assigned_df, src) = <<>>
    THEN << ResultRow("forced_not_met", src.family, src.room_type, src.check_in,
                      src.check_out, src.forced_room, "", <<>>, <<>>,
                      "row_not_assigned", <<>>) >>
    ELSE IF MaskRows(assigned_df, src)[1].room = src.forced_room THEN <<>>
    ELSE << ForcedReason(src, sched, rdf, MaskRows(assigned_df, src)[1].room) >>

\* part A: the loop over the bookings with a forced room
RECURSIVE ForcedNotMet(_, _, _, _)
ForcedNotMet(forced_rows, assigned_df, sched, rdf) ==
    IF forced_rows = <<>> THEN <<>>
    ELSE ForcedRow(Head(forced_rows), assigned_df, sched, rdf)
           \o ForcedNotMet(Tail(forced_rows), assigned_df, sched, rdf)

\* _perfect_matching: dfs(u, seen) over the options opts of u; matchR and
\* seen are the mutable objects
RECURSIVE MatchDfs(_, _, _, _, _)
RECURSIVE MatchDfsAfter(_, _, _, _)
MatchDfs(choices, u, opts, seen, matchR) ==
    IF opts = <<>> THEN [ok |-> FALSE, seen |-> seen, matchR |-> matchR]
    ELSE IF Head(opts) \in seen THEN MatchDfs(choices, u, Tail(opts), seen, matchR)
    ELSE IF Head(opts) \notin DOMAIN matchR
    THEN [ok |-> TRUE, seen |-> seen \cup {Head(opts)},
          matchR |-> PutKey(matchR, Head(opts), u)]
    ELSE MatchDfsAfter(choices, u, opts,
            MatchDfs(choices, matchR[Head(opts)], choices[matchR[Head(opts)]],
                     seen \cup {Head(opts)}, matchR))

MatchDfsAfter(choices, u, opts, r) ==
    IF r.ok THEN [ok |-> TRUE, seen |-> r.seen,
                  matchR |-> PutKey(r.matchR, Head(opts), u)]
    ELSE MatchDfs(choices, u, Tail(opts), r.seen, r.matchR)

\* the loop `for u in choices.keys()`
RECURSIVE MatchLoop(_, _, _)
RECURSIVE MatchStep(_, _, _)
MatchLoop(choices, u, matchR) ==
    IF u > Len(choices) THEN TRUE
    ELSE MatchStep(choices, u, MatchDfs(choices, u, choices[u], {}, matchR))

MatchStep(choices, u, r) ==
    IF ~ r.ok THEN FALSE ELSE MatchLoop(choices, u + 1, r.matchR)

\* every booking has some option, distinct or not
MatchingSkipped(choices) == \A j \in DOMAIN choices : choices[j] # <<>>

PerfectMatching(choices) == MatchLoop(choices, 1, << >>)

\* sched_excl[(rt, rm)]: the reservations of the room by other families
SchedExcl(sched, rt, rm, fml) ==
    SelectSeq(ListOf(sched, <<rt, rm>>), LAMBDA t : t[3] # fml)

\* opts of one booking: the rooms of the block free of other families
Opts(row, block, sched, rt, fml) ==
    SelectSeq(block, LAMBDA rm :
        \A k \in DOMAIN SchedExcl(sched, rt, rm, fml) :
            ~ Overlaps(SchedExcl(sched, rt, rm, fml)[k][1],
                       SchedExcl(sched, rt, rm, fml)[k][2],
                       ParseDate(row.check_in), ParseDate(row.check_out)))

Choices(rows, block, sched, rt, fml) ==
    [i \in DOMAIN rows |-> Opts(rows[i], block, sched, rt, fml)]

RECURSIVE AvailPairs(_)
AvailPairs(choices) ==
    IF choices = <<>> THEN 0 ELSE Len(Head(choices)) + AvailPairs(Tail(choices))

\* the loop over the windows all_rooms[i:i+k]; best holds best_avail, best_block
RECURSIVE WindowLoop(_, _, _, _, _, _, _)
RECURSIVE WindowStep(_, _, _, _, _, _, _, _)
WindowLoop(i, all_rooms, rows, sched, rt, fml, best) ==
    IF i > Len(all_rooms) - Len(rows) + 1
    THEN [feasible_block |-> <<>>, best_block |-> best.block]
    ELSE WindowStep(i, all_rooms, rows, sched, rt, fml, best,
            Choices(rows, SubSeq(all_rooms, i, i + Len(rows) - 1), sched, rt, fml))

WindowStep(i, all_rooms, rows, sched, rt, fml, best, choices) ==
    IF (\A j \in DOMAIN choices : choices[j] # <<>>) /\ PerfectMatching(choices)
    THEN [feasible_block |-> SubSeq(all_rooms, i, i + Len(rows) - 1),
          best_block |-> best.block]
    ELSE WindowLoop(i + 1, all_rooms, rows, sched, rt, fml,
            IF AvailPairs(choices) > best.avail
            THEN [avail |-> AvailPairs(choices),
                  block |-> SubSeq(all_rooms, i, i + Len(rows) - 1)]
            ELSE best)

\* the notes of one room of the best block
BlockerNotesOf(rm, excl) ==
    [k \in DOMAIN excl |-> <<rm, excl[k][3], FormatDate(excl[k][1]), FormatDate(excl[k][2])>>]

RECURSIVE BlockerNotes(_, _, _, _)
BlockerNotes(best_block, sched, rt, fml) ==
    IF best_block = <<>> THEN <<>>
    ELSE BlockerNotesOf(Head(best_block), SchedExcl(sched, rt, Head(best_block), fml))
           \o BlockerNotes(Tail(best_block), sched, rt, fml)

\* the report row of one family and type whose rooms are not serial
NonSerialRow(fml, rt, rows, sched, w) ==
    IF w.feasible_block # <<>>
    THEN ResultRow("non_serial", fml, rt, "", "", "", "",
                   SortRooms(RoomLabelsOf(rows)), w.feasible_block,
                   "serial_block_was_feasible", <<>>)
    ELSE ResultRow("non_serial", fml, rt, "", "", "", "",
                   SortRooms(RoomLabelsOf(rows)), <<>>,
                   "no_contiguous_block", FirstN(BlockerNotes(w.best_block, sched, rt, fml), 6))

\* part B for one (family, room_type) group
NonSerialGroup(fml, rt, rows, sched, rdf) ==
    IF Len(rows) <= 1 THEN <<>>
    ELSE IF SerialOk(SortRooms(RoomLabelsOf(rows))) THEN <<>>
    ELSE << NonSerialRow(fml, rt, rows, sched,
                WindowLoop(1, DiagRoomsByType(rdf, rt), rows, sched, rt, fml,
                           [avail |-> -1, block |-> <<>>])) >>

\* the keys of by_family_type, in order of first appearance
ByFamilyType(df) == Dedup([i \in DOMAIN df |-> <<df[i].family, df[i].room_type>>])

RECURSIVE NonSerial(_, _, _, _)
NonSerial(keys, assigned_df, sched, rdf) ==
    IF keys = <<>> THEN <<>>
    ELSE NonSerialGroup(Head(keys)[1], Head(keys)[2],
            SelectSeq(assigned_df, LAMBDA r : <<r.family, r.room_type>> = Head(keys)),
            sched, rdf)
           \o NonSerial(Tail(keys), assigned_df, sched, rdf)

ExplainResult(assigned_df, fam, rdf) ==
    IF assigned_df = <<>> THEN [called |-> TRUE, results |-> <<>>]
    ELSE [called |-> TRUE,
          results |->
            ForcedNotMet(SelectSeq(fam, LAMBDA r : r.forced_room # ""),
                         assigned_df, SchedulesFromDf(assigned_df), rdf)
              \o NonSerial(ByFamilyType(assigned_df), assigned_df,
                           SchedulesFromDf(assigned_df), rdf)]

\* explain_soft_constraints(assigned_df, families_df, rooms_df)
explain_soft_constraints ==
    /\ pc = "explain"
    /\ diag_out' = ExplainResult(assigned_rows, families_df, rooms_df)
    /\ pc' = "explained"
    /\ UNCHANGED <<calVars, inVars, rt_queue, pt, ret, assigned_rows, unassigned_rows,
                   log, raised, global_assigned, val_out>>

NextDiag == explain_soft_constraints

\* the catalog of a diagnostics run: rooms 1..DiagRooms of T1, listed in
\* descending order, and the next label under T2
DiagCatalog ==
    CatalogRows({ LabelList[i] : i \in 1..DiagRooms }, "T1", DiagRooms)
      \o << [room |-> LabelList[DiagRooms + 1], room_type |-> "T2"] >>

\* a booking together with the room it was given ("" when it was not placed)
PlacedRows(forcedVals, roomVals) ==
    { [family |-> f, room_type |-> "T1", check_in |-> iv[1], check_out |-> iv[2],
       forced_room |-> fr, room |-> rm] :
        f \in Families, iv \in ProperIntervals, fr \in forcedVals, rm \in roomVals }

\* bookings with forced rooms (met, occupied, free, or absent from the type)
\* over two rooms, and longer lists of bookings without forced rooms over the
\* whole catalog of the type
DiagPlacements ==
    UNION { [1..n -> PlacedRows({"", "1", LabelList[DiagRooms + 1]}, {"", "1", "2"})] :
              n \in 0..DiagForcedRows }
      \cup UNION { [1..n -> PlacedRows({""}, { LabelList[i] : i \in 1..DiagRooms })] :
                     n \in 0..DiagRows }

\* the bookings of a placement, as the families table
PlacementFamilies(pl) ==
    [i \in DOMAIN pl |->
        [family |-> pl[i].family, room_type |-> pl[i].room_type,
         check_in |-> pl[i].check_in, check_out |-> pl[i].check_out,
         forced_room |-> pl[i].forced_room]]

\* the rows of the bookings that were placed, as the solver writes them
RECURSIVE PlacementTable(_, _)
PlacementTable(pl, i) ==
    IF i > Len(pl) THEN <<>>
    ELSE IF pl[i].room = "" THEN PlacementTable(pl, i + 1)
    ELSE << SolveRow([idx |-> i, family |-> pl[i].family,
                      room_type |-> pl[i].room_type, check_in |-> pl[i].check_in,
                      check_out |-> pl[i].check_out,
                      forced_room |-> pl[i].forced_room], pl[i].room) >>
           \o PlacementTable(pl, i + 1)

InitDiag ==
    /\ room_calendars = << >>
    /\ cal_last = NoCall
    /\ cal_count = 0
    /\ rooms_df = DiagCatalog
    /\ \E pl \in DiagPlacements :
          /\ ValidateResult(PlacementTable(pl, 1)).hard_ok
          /\ families_df = PlacementFamilies(pl)
          /\ assigned_rows = PlacementTable(pl, 1)
    /\ pc = "explain"
    /\ rt_queue = <<>>
    /\ pt = NoPt
    /\ ret = NoPt
    /\ unassigned_rows = <<>>
    /\ log = <<>>
    /\ raised = "none"
    /\ global_assigned = << >>
    /\ val_out = NoVal
    /\ diag_out = NoDiag

SpecDiag == InitDiag /\ [][NextDiag]_vars

\* a catalog whose numbers have a gap and that has a label without a number:
\* rooms x, 4, 2, 1 of T1 in that order, and room 3 under T2
GapCatalog ==
    << [room |-> "x", room_type |-> "T1"], [room |-> "4", room_type |-> "T1"],
       [room |-> "2", room_type |-> "T1"], [room |-> "1", room_type |-> "T1"],
       [room |-> "3", room_type |-> "T2"] >>

\* every conflict-free final assignment of up to GapRows bookings without
\* forced rooms over that catalog
InitDiagGaps ==
    /\ room_calendars = << >>
    /\ cal_last = NoCall
    /\ cal_count = 0
    /\ rooms_df = GapCatalog
    /\ \E pl \in UNION { [1..n -> PlacedRows({""}, {"1", "2", "4", "x"})] : n \in 0..GapRows } :
          /\ ValidateResult(PlacementTable(pl, 1)).hard_ok
          /\ families_df = PlacementFamilies(pl)
          /\ assigned_rows = PlacementTable(pl, 1)
    /\ pc = "explain"
    /\ rt_queue = <<>>
    /\ pt = NoPt
    /\ ret = NoPt
    /\ unassigned_rows = <<>>
    /\ log = <<>>
    /\ raised = "none"
    /\ global_assigned = << >>
    /\ val_out = NoVal
    /\ diag_out = NoDiag

SpecDiagGaps == InitDiagGaps /\ [][NextDiag]_vars

-----------------------------------------------------------------------------
(* Scenario inputs: a catalog of ScenRooms rooms of one type, family A with *)
(* three unforced bookings of one interval, family B with forced bookings  *)
(* of the same interval on all rooms but three; rows in any order.          *)

ScenLabels == { LabelList[i] : i \in 1..ScenRooms }

ScenCatalog == CatalogRows(ScenLabels, "T1", Len(LabelList))

ScenRowsOf(iv) ==
    { [family |-> "A", room_type |-> "T1", check_in |-> iv[1], check_out |-> iv[2],
       forced_room |-> ""] }
      \cup { [family |-> "B", room_type |-> "T1", check_in |-> iv[1],
              check_out |-> iv[2], forced_room |-> r] : r \in ScenLabels }

ScenInputs ==
    UNION { { f \in [1..ScenRooms -> ScenRowsOf(iv)] :
                /\ Cardinality({ i \in 1..ScenRooms : f[i].family = "A" }) = 3
                /\ \A i, j \in 1..ScenRooms :
                      (i # j /\ f[i].family = "B" /\ f[j].family = "B")
                          => f[i].forced_room # f[j].forced_room } :
            iv \in ProperIntervals }

\* the scenario handed to assign_rooms of logic/solver.py; the empty catalog
\* stands for a session whose rooms are not loaded
InitScenario ==
    /\ families_df \in ScenInputs
    /\ rooms_df \in {ScenCatalog, <<>>}
    /\ room_calendars = << >>
    /\ cal_last = NoCall
    /\ cal_count = 0
    /\ pc = "s_start"
    /\ rt_queue = <<>>
    /\ pt = NoPt
    /\ ret = NoPt
    /\ assigned_rows = <<>>
    /\ unassigned_rows = <<>>
    /\ log = <<>>
    /\ raised = "none"
    /\ global_assigned = << >>
    /\ val_out = NoVal
    /\ diag_out = NoDiag

SpecScenario == InitScenario /\ [][NextSolve]_vars

\* the same scenario handed to the legacy assign_rooms of logic.py
InitScenarioLegacy ==
    /\ families_df \in ScenInputs
    /\ rooms_df = ScenCatalog
    /\ room_calendars = << >>
    /\ cal_last = NoCall
    /\ cal_count = 0
    /\ pc = "start"
    /\ rt_queue = <<>>
    /\ pt = NoPt
    /\ ret = NoPt
    /\ assigned_rows = <<>>
    /\ unassigned_rows = <<>>
    /\ log = <<>>
    /\ raised = "none"
    /\ global_assigned = << >>
    /\ val_out = NoVal
    /\ diag_out = NoDiag

SpecScenarioLegacy == InitScenarioLegacy /\ [][NextLegacy]_vars

-----------------------------------------------------------------------------
(* Manual override: ui/sections.py, render_manual_override, with            *)
(* rebuild_calendar_from_assignments of logic/calendar_store.py.  The      *)
(* session's assigned table is assigned_rows, the session's rooms rooms_df. *)

\* the loop of rebuild_calendar_from_assignments: reserve every row in turn
RECURSIVE ReplayRows(_, _)
ReplayRows(df, cal) ==
    IF df = <<>> THEN cal
    ELSE ReplayRows(Tail(df),
            ReserveInto(cal, <<Head(df).room_type, Head(df).room>>,
                        Head(df).check_in, Head(df).check_out))

\* room_calendars = {}; then the loop (an empty table leaves it empty)
RebuildCalendar(assigned_df) == ReplayRows(assigned_df, << >>)

\* sorted(assigned_tbl["family"].unique())
OverrideFamilies(tbl) == FamiliesSorted([i \in DOMAIN tbl |-> tbl[i].family])

\* assigned.query("family == @sel_family").index: the table positions of the family
FamilyIndex(tbl, sel_family) ==
    SelectSeq(Idxs(Len(tbl)), LAMBDA i : tbl[i].family = sel_family)

\* sorted(unique rooms of the selected row's type); the selectbox value
CandidateRooms(rdf, sel_rt) ==
    Dedup(Permute(RoomLabelsOf(SelectSeq(rdf, LAMBDA r : r.room_type = sel_rt)),
                  SortIdx(Len(SelectSeq(rdf, LAMBDA r : r.room_type = sel_rt)),
                          [k \in DOMAIN SelectSeq(rdf, LAMBDA r : r.room_type = sel_rt) |->
                              LabelRank(SelectSeq(rdf, LAMBDA r : r.room_type = sel_rt)[k].room)])))

\* str(new_room): an empty selectbox gives None
NewRoomChoices(rdf, sel_rt) ==
    IF CandidateRooms(rdf, sel_rt) = <<>> THEN {"None"}
    ELSE SeqToSet(CandidateRooms(rdf, sel_rt))

\* "Apply override" pressed: the selected row's room is written into the table
OverrideWrite(sel_family, sel_idx, new_room) ==
    /\ pt' = [phase |-> "override", assigned_tbl |-> assigned_rows,
              sel_family |-> sel_family, sel_idx |-> sel_idx,
              target |-> FamilyIndex(assigned_rows, sel_family)[sel_idx]]
    /\ assigned_rows' =
          [assigned_rows EXCEPT
              ![FamilyIndex(assigned_rows, sel_family)[sel_idx]].room = new_room]
    /\ pc' = "o_written"

OverrideApply ==
    /\ pc \in {"o_idle", "o_returned"}
    /\ assigned_rows # <<>>
    /\ \E sel_family \in SeqToSet(OverrideFamilies(assigned_rows)) :
         \E sel_idx \in DOMAIN FamilyIndex(assigned_rows, sel_family) :
           \E new_room \in NewRoomChoices(rooms_df,
                    assigned_rows[FamilyIndex(assigned_rows, sel_family)[sel_idx]].room_type) :
              OverrideWrite(sel_family, sel_idx, new_room)
    /\ UNCHANGED <<calVars, inVars, rt_queue, ret, unassigned_rows, log, sideVars>>

\* rebuild_calendar_from_assignments(st.session_state["assigned"]); cal_last
\* keeps the calendar the call replaced
OverrideRebuild ==
    /\ pc = "o_written"
    /\ room_calendars' = RebuildCalendar(assigned_rows)
    /\ cal_last' = [op |-> "rebuild", before |-> room_calendars, result |-> "returned"]
    /\ pc' = "o_rebuilt"
    /\ UNCHANGED <<cal_count, inVars, rt_queue, pt, ret, assigned_rows,
                   unassigned_rows, log, sideVars>>

\* hard_ok, soft_violations = validate_constraints(st.session_state["assigned"])
OverrideValidate ==
    /\ pc = "o_rebuilt"
    /\ val_out' = ValidateResult(assigned_rows)
    /\ pc' = "o_validated"
    /\ UNCHANGED <<calVars, inVars, rt_queue, pt, ret, assigned_rows,
                   unassigned_rows, log, raised, global_assigned, diag_out>>

\* `if not hard_ok`: the room of the row is written back from fam_rows (the
\* st.error / st.success messages go to the page, not to the log)
OverrideRevert ==
    /\ pc = "o_validated"
    /\ ~ val_out.hard_ok
    /\ assigned_rows' =
          [assigned_rows EXCEPT ![pt.target].room = pt.assigned_tbl[pt.target].room]
    /\ pc' = "o_returned"
    /\ UNCHANGED <<calVars, inVars, rt_queue, pt, ret, unassigned_rows, log, sideVars>>

\* the else branch: the change stays
OverrideAccept ==
    /\ pc = "o_validated"
    /\ val_out.hard_ok
    /\ pc' = "o_returned"
    /\ UNCHANGED <<calVars, inVars, rt_queue, pt, ret, assigned_rows,
                   unassigned_rows, log, sideVars>>

NextEdit ==
    \/ OverrideApply
    \/ OverrideRebuild
    \/ OverrideValidate
    \/ OverrideRevert
    \/ OverrideAccept

\* rows of a table a solve returned: parseable proper dates, rooms of the catalog
EditTableRows ==
    { [family |-> f, room |-> k[2], room_type |-> k[1], check_in |-> iv[1],
       check_out |-> iv[2], forced_room |-> ""] :
        f \in Families, k \in CalKeys, iv \in ProperIntervals }

\* the catalog of the session: every key of CalKeys is a room
EditCatalog ==
    CatalogRows({"1", "2"}, "T1", Len(LabelList)) \o CatalogRows({"1"}, "T2", Len(LabelList))

\* a table without hard violations, its replay in the calendar
InitEdit ==
    /\ assigned_rows \in { t \in UNION { [1..n -> EditTableRows] : n \in 1..EditRows } :
                             ValidateResult(t).hard_ok }
    /\ room_calendars = RebuildCalendar(assigned_rows)
    /\ cal_last = NoCall
    /\ cal_count = 0
    /\ families_df = <<>>
    /\ rooms_df = EditCatalog
    /\ pc = "o_idle"
    /\ rt_queue = <<>>
    /\ pt = NoPt
    /\ ret = NoPt
    /\ unassigned_rows = <<>>
    /\ log = <<>>
    /\ raised = "none"
    /\ global_assigned = << >>
    /\ val_out = NoVal
    /\ diag_out = NoDiag

SpecEdit == InitEdit /\ [][NextEdit]_vars

-----------------------------------------------------------------------------
(* A session of the public package (logic/__init__.py): assign_rooms of     *)
(* logic/solver.py and rebuild_calendar_from_assignments of                *)
(* logic/calendar_store.py, called one after the other.  assigned_rows is   *)
(* the current assignment: what the last solve returned or the table the   *)
(* last rebuild was given.                                                 *)

\* tables handed to rebuild_calendar_from_assignments: no two rows of a room overlap
SessionTables ==
    { t \in UNION { [1..n -> { [family |-> "A", room |-> k[2], room_type |-> k[1],
                                check_in |-> iv[1], check_out |-> iv[2],
                                forced_room |-> ""] :
                                  k \in {<<"T1", "1">>, <<"T1", "2">>},
                                  iv \in ProperIntervals }] :
                      n \in 0..SessRows } :
        ValidateResult(t).hard_ok }

\* rebuild_calendar_from_assignments(assigned_df) between two solves
SessionRebuild ==
    /\ pc \in {"s_start", "s_done"}
    /\ \E assigned_df \in SessionTables :
          /\ assigned_rows' = assigned_df
          /\ room_calendars' = RebuildCalendar(assigned_df)
    /\ cal_last' = [op |-> "rebuild", result |-> "returned"]
    /\ UNCHANGED <<cal_count, inVars, pc, rt_queue, pt, ret, unassigned_rows, log,
                   sideVars>>

\* the next call of assign_rooms, after one that returned or raised
SessionSolveAgain ==
    /\ pc \in {"s_done", "s_raised"}
    /\ pc' = "s_start"
    /\ raised' = "none"
    /\ log' = <<>>
    /\ cal_last' = NoCall
    /\ UNCHANGED <<room_calendars, cal_count, inVars, rt_queue, pt, ret, assigned_rows,
                   unassigned_rows, global_assigned, val_out, diag_out>>

NextSession ==
    \/ NextSolve
    \/ SessionRebuild
    \/ SessionSolveAgain

InitSession ==
    /\ families_df \in UNION { [1..n -> BookingRowsOf({"A"}, RoomTypes, {""})] :
                                 n \in 1..SessRows }
    /\ rooms_df \in { CatalogRows(S1, "T1", Len(LabelList))
                         \o CatalogRows(S2, "T2", Len(LabelList)) :
                       S1 \in SUBSET {"1", "2"}, S2 \in SUBSET {"1"} }
    /\ room_calendars = << >>
    /\ cal_last = NoCall
    /\ cal_count = 0
    /\ pc = "s_start"
    /\ rt_queue = <<>>
    /\ pt = NoPt
    /\ ret = NoPt
    /\ assigned_rows = <<>>
    /\ unassigned_rows = <<>>
    /\ log = <<>>
    /\ raised = "none"
    /\ global_assigned = << >>
    /\ val_out = NoVal
    /\ diag_out = NoDiag

SpecSession == InitSession /\ [][NextSession]_vars

-----------------------------------------------------------------------------
(* Solve, validate, rebuild, validate: the legacy module logic.py, whose    *)
(* validate_constraints and rebuild_calendar_from_assignments have the code *)
(* of logic/validate.py and logic/calendar_store.py.                        *)

\* a validate that sorts the caller's table by (room_type, room) instead of a copy
RoundTripValidateInPlace ==
    /\ pc \in {"done", "validated", "rebuilt"}
    /\ val_out' = ValidateResult(assigned_rows)
    /\ assigned_rows' =
          Permute(assigned_rows, SortIdx(Len(assigned_rows),
              [i \in DOMAIN assigned_rows |->
                  PairRank(<<assigned_rows[i].room_type, assigned_rows[i].room>>)]))
    /\ pc' = "validated"
    /\ UNCHANGED <<calVars, inVars, rt_queue, pt, ret, unassigned_rows, log, raised,
                   global_assigned, diag_out>>

\* validate_constraints(assigned_df) on the table the solve returned
RoundTripValidate ==
    /\ pc \in {"done", "validated", "rebuilt"}
    /\ val_out' = ValidateResult(assigned_rows)
    /\ pc' = "validated"
    /\ UNCHANGED <<calVars, inVars, rt_queue, pt, ret, assigned_rows, unassigned_rows,
                   log, raised, global_assigned, diag_out>>

\* rebuild_calendar_from_assignments(assigned_df) on the same table
RoundTripRebuild ==
    /\ pc \in {"done", "validated"}
    /\ room_calendars' = RebuildCalendar(assigned_rows)
    /\ cal_last' = [op |-> "rebuild", result |-> "returned"]
    /\ pc' = "rebuilt"
    /\ UNCHANGED <<cal_count, inVars, rt_queue, pt, ret, assigned_rows,
                   unassigned_rows, log, sideVars>>

NextRoundTrip ==
    \/ NextLegacy
    \/ RoundTripValidate
    \/ RoundTripRebuild

SpecRoundTrip == InitOrch /\ [][NextRoundTrip]_vars

-----------------------------------------------------------------------------
(* Properties of the legacy per-type solver, under SpecPT *)

\* two half-open intervals [s1, e1) and [s2, e2) share a night
HalfOpenOverlap(s1, e1, s2, e2) == s1 < e2 /\ s2 < e1

\* the per-type call has returned and assign_rooms has not yet consumed it
Returned == pc = "commit" /\ ret.phase \in {"B", "C", "fail"}

\* the rows handed to the running per-type call, as the caller holds them
CallRows == RowsOfType(families_df, Head(rt_queue))

CallRooms == SeqToSet(RoomsByType(rooms_df, Head(rt_queue)))

RowsClash(a, b) ==
    HalfOpenOverlap(ParseDate(a.check_in), ParseDate(a.check_out),
                    ParseDate(b.check_in), ParseDate(b.check_out))

\* C1: in every assignment the per-type solver returns (after Phase B, after
\* a Phase C waiver, or as a partial result), two bookings given the same room
\* never have overlapping half-open intervals.
C1_NoOverlapInReturn ==
    Returned =>
        \A i, j \in DOMAIN ret.assignment :
            (i # j /\ ret.assignment[i] = ret.assignment[j])
                => ~ RowsClash(CallRows[i], CallRows[j])

\* a Phase C result in which two bookings share one room
C1_Witness ==
    /\ Returned
    /\ ret.phase = "C"
    /\ \E i, j \in DOMAIN ret.assignment :
          i # j /\ ret.assignment[i] = ret.assignment[j]

\* some way to give every row a room with no two clashing rows in one room
HardFeasible(rows, rooms) ==
    \E f \in [DOMAIN rows -> rooms] :
        \A i, j \in DOMAIN rows :
            (i # j /\ f[i] = f[j]) => ~ RowsClash(rows[i], rows[j])

\* C2: whenever the bookings of the type can all be placed in the type's rooms
\* without two overlapping bookings sharing a room (pins and seriality
\* disregarded), _assign_per_type returns a complete assignment and an empty
\* unassigned list.  Checked under SpecPins.
C2_FeasibleIsSolved ==
    (Returned /\ HardFeasible(CallRows, CallRooms))
        => /\ ret.unassigned = <<>>
           /\ DOMAIN ret.assignment = DOMAIN CallRows

\* C3: when no complete assignment is found, the returned assignment places
\* at least as many bookings as the largest partial placement the backtracking
\* built in Phase B or in any Phase C attempt.
C3_ReturnsLargestPartial ==
    (Returned /\ ret.phase = "fail")
        => Cardinality(DOMAIN ret.assignment) >= pt.reached

\* the rows of the running call whose forced label is not in the catalog
AbsentForced ==
    { i \in DOMAIN CallRows :
        CleanOpt(CallRows[i].forced_room) # ""
          /\ CleanOpt(CallRows[i].forced_room) \notin CallRooms }

\* the rows of the running call with every absent forced label left empty
BlankAbsent ==
    [i \in DOMAIN CallRows |->
        IF i \in AbsentForced THEN [CallRows[i] EXCEPT !.forced_room = ""]
        ELSE CallRows[i]]

\* the forced pre-placement of the same call had those labels been empty
PhaseAUnforced ==
    ForcedPreplacement(IndexRows(BlankAbsent), RoomsByType(rooms_df, Head(rt_queue)),
                       Head(rt_queue), <<>>)

\* everything Phase B and Phase C read is the same in p and q
SameSearchInput(p, q) ==
    /\ p.schedules = q.schedules
    /\ p.assignment = q.assignment
    /\ p.pinned_forced_ids = q.pinned_forced_ids
    /\ \A i \in DOMAIN p.rows :
          /\ p.rows[i].forced = q.rows[i].forced
          /\ p.rows[i].start = q.rows[i].start
          /\ p.rows[i].end = q.rows[i].end
          /\ p.rows[i].family = q.rows[i].family

\* C5: a booking whose forced_room is absent from the type's catalog does not
\* raise; its id is in waived_forced, a waiver line naming it is logged, and
\* it enters Phase B unpinned with no forced label; Phase B starts from the
\* same rows, schedules and pins as if the label had been left empty; the id
\* is still in waived_forced of the returned result.
C5_AbsentForcedWaived ==
    /\ raised = "none"
    /\ pc \in {"phaseB", "phaseC", "fail", "commit"} =>
          \A i \in AbsentForced :
              /\ i \in SeqToSet(pt.waived_forced)
              /\ <<"forced_not_found_waived", pt.rt, CallRows[i].family, i>>
                    \in SeqToSet(log)
              /\ pt.rows[i].forced = ""
              /\ i \notin SeqToSet(pt.pinned_forced_ids)
    /\ Returned => \A i \in AbsentForced : i \in SeqToSet(ret.waived_forced)
    /\ pc = "phaseB" => SameSearchInput(pt, PhaseAUnforced)

\* a booking with an absent forced label got a room in Phase B
C5_Witness ==
    /\ Returned
    /\ ret.phase = "B"
    /\ \E i \in AbsentForced : i \in DOMAIN ret.assignment

-----------------------------------------------------------------------------
(* Properties of the interval calendar, under SpecCal *)

\* the intervals stored under the key of the last call
LastKeyIntervals == CalOf(room_calendars, cal_last.key)

\* C7: a reservation whose interval has check_in >= check_out is rejected:
\* reserve raises for it and the interval is not stored in the calendar.
C7_DegenerateReserveRejected ==
    (cal_last.op = "reserve"
        /\ ParseDate(cal_last.check_in) >= ParseDate(cal_last.check_out))
      => /\ cal_last.result = "raised"
         /\ <<ParseDate(cal_last.check_in), ParseDate(cal_last.check_out)>>
               \notin SeqToSet(LastKeyIntervals)

\* C8: is_available(room_type, room, ci, co) is true iff no interval [s, e)
\* stored under that key has ci < e and s < co; touching intervals are
\* available and intervals under other keys do not count.
C8_IsAvailableExact ==
    cal_last.op = "is_available" =>
        (cal_last.result <=>
            \A i \in DOMAIN LastKeyIntervals :
                ~ HalfOpenOverlap(ParseDate(cal_last.check_in),
                                  ParseDate(cal_last.check_out),
                                  LastKeyIntervals[i][1], LastKeyIntervals[i][2]))

\* an available answer for an interval that starts where a stored one ends,
\* while another key holds an interval that overlaps the question
C8_Witness ==
    /\ cal_last.op = "is_available"
    /\ cal_last.result
    /\ ParseDate(cal_last.check_in) < ParseDate(cal_last.check_out)
    /\ \E i \in DOMAIN LastKeyIntervals :
          /\ LastKeyIntervals[i][1] < LastKeyIntervals[i][2]
          /\ LastKeyIntervals[i][2] = ParseDate(cal_last.check_in)
    /\ \E k \in DOMAIN room_calendars \ {cal_last.key} :
          \E i \in DOMAIN room_calendars[k] :
              HalfOpenOverlap(ParseDate(cal_last.check_in),
                              ParseDate(cal_last.check_out),
                              room_calendars[k][i][1], room_calendars[k][i][2])

-----------------------------------------------------------------------------
(* Properties of the validator, under SpecVal *)

AllParse(df) ==
    \A i \in DOMAIN df : ParseOk(df[i].check_in) /\ ParseOk(df[i].check_out)

AllProper(df) ==
    \A i \in DOMAIN df : ParseDate(df[i].check_in) < ParseDate(df[i].check_out)

\* two different rows under one (room_type, room) whose intervals overlap
SomeClash(df) ==
    \E i, j \in DOMAIN df :
        /\ i # j
        /\ df[i].room_type = df[j].room_type
        /\ df[i].room = df[j].room
        /\ RowsClash(df[i], df[j])

\* C10: validate_constraints returns without an exception; an unparseable date
\* gives hard_ok = false; and when every row that parses has
\* check_in < check_out, hard_ok is true iff every date parses and no two rows
\* of the same (room_type, room) overlap.
C10_HardOkExact ==
    pc = "validated" =>
        /\ val_out.called
        /\ raised = "none"
        /\ ~ AllParse(assigned_rows) => ~ val_out.hard_ok
        /\ (AllParse(assigned_rows) /\ AllProper(assigned_rows))
              => (val_out.hard_ok <=> ~ SomeClash(assigned_rows))

\* three rows of one room, stored out of date order, whose first and last
\* overlap: only the sort makes them adjacent
C10_Witness ==
    /\ pc = "validated"
    /\ Len(assigned_rows) = 3
    /\ AllParse(assigned_rows) /\ AllProper(assigned_rows)
    /\ \A i \in 1..3 : assigned_rows[i].room = assigned_rows[1].room
                       /\ assigned_rows[i].room_type = assigned_rows[1].room_type
    /\ RowsClash(assigned_rows[1], assigned_rows[3])
    /\ ~ RowsClash(assigned_rows[1], assigned_rows[2])
    /\ ~ RowsClash(assigned_rows[2], assigned_rows[3])
    /\ ~ val_out.hard_ok

-----------------------------------------------------------------------------
(* Properties of the public solve (logic/solver.py), under SpecSolve *)

BookedTypes == { families_df[i].room_type : i \in DOMAIN families_df }

CatalogOf(rt) == { rooms_df[i].room : i \in { j \in DOMAIN rooms_df : rooms_df[j].room_type = rt } }

RowsWithType(rows, rt) == { i \in DOMAIN rows : rows[i].room_type = rt }

\* C4: called with well-formed bookings and a catalog in which at least one
\* booked room type has rooms, assign_rooms never ends in an error outcome;
\* it returns its (assigned, unassigned) result.
C4_SolveNeverRaises ==
    (\E rt \in BookedTypes : CatalogOf(rt) # {})
        => (raised = "none" /\ pc # "s_raised")

\* C6: when a room type has bookings but no catalog rooms, solve does not
\* raise; once it has returned, every booking of that type is in unassigned
\* and a diagnostic line naming the type is in the log.
C6_ZeroRoomTypeUnassigned ==
    (pt.phase = "solve" /\ pt.solve_per_type
        /\ \E rt \in BookedTypes : CatalogOf(rt) = {})
      => /\ raised = "none"
         /\ pc = "s_done" =>
               \A rt \in { t \in BookedTypes : CatalogOf(t) = {} } :
                   /\ Cardinality(RowsWithType(unassigned_rows, rt))
                         = Cardinality(RowsWithType(families_df, rt))
                   /\ <<"no_rooms_available", rt>> \in SeqToSet(log)

-----------------------------------------------------------------------------
(* Properties of the legacy orchestrator (logic.py assign_rooms), under SpecOrch *)

\* the legacy assign_rooms on a type without rooms (the case of C6): its rows
\* all end in unassigned, the type is named in the log, and every row of the
\* other types ends in exactly one of the two outputs
LegacyZeroRoomType ==
    pc = "done" =>
        /\ \A rt \in { t \in BookedTypes : CatalogOf(t) = {} } :
              /\ Cardinality(RowsWithType(unassigned_rows, rt))
                    = Cardinality(RowsWithType(families_df, rt))
              /\ <<"no_rooms", rt>> \in SeqToSet(log)
        /\ Len(assigned_rows) + Len(unassigned_rows) = Len(families_df)

\* C9: every assigned row has a room label that belongs to the catalog of the
\* row's own room_type.
C9_RoomFromOwnCatalog ==
    \A i \in DOMAIN assigned_rows :
        assigned_rows[i].room \in CatalogOf(assigned_rows[i].room_type)

\* a returned row of one type whose forced label exists only under the other
\* type got a room all the same
C9_Witness ==
    /\ pc = "done"
    /\ \E i \in DOMAIN assigned_rows :
          /\ assigned_rows[i].forced_room # ""
          /\ assigned_rows[i].forced_room \notin CatalogOf(assigned_rows[i].room_type)
          /\ \E rt \in RoomTypes : assigned_rows[i].forced_room \in CatalogOf(rt)

-----------------------------------------------------------------------------
(* Properties of the manual override, under SpecEdit *)

\* C11: a manual edit that validate answers with hard_ok = false is rolled
\* back in full: once validate has said no the live calendar is still the one
\* the handler found, and when the handler returns the assigned table and the
\* calendar are both what they were before the edit.
C11_RejectedEditRolledBack ==
    /\ (pc = "o_validated" /\ ~ val_out.hard_ok) => room_calendars = cal_last.before
    /\ (pc = "o_returned" /\ ~ val_out.hard_ok) =>
          /\ assigned_rows = pt.assigned_tbl
          /\ room_calendars = cal_last.before

-----------------------------------------------------------------------------
(* Properties of a session of solve and rebuild calls, under SpecSession *)

\* the (start, end) pairs of the rows of the table that sit on one key, in row order
RowsOnKey(df, key) ==
    [i \in DOMAIN SelectSeq(df, LAMBDA r : <<r.room_type, r.room>> = key) |->
        <<ParseDate(SelectSeq(df, LAMBDA r : <<r.room_type, r.room>> = key)[i].check_in),
          ParseDate(SelectSeq(df, LAMBDA r : <<r.room_type, r.room>> = key)[i].check_out)>>]

SessionKeys(df) == DOMAIN room_calendars \cup { <<df[i].room_type, df[i].room>> : i \in DOMAIN df }

CalendarIsReplay(df) ==
    \A key \in SessionKeys(df) :
        /\ CalOf(room_calendars, key) = RowsOnKey(df, key)
        /\ \A i, j \in DOMAIN CalOf(room_calendars, key) :
              i # j => ~ HalfOpenOverlap(CalOf(room_calendars, key)[i][1],
                                         CalOf(room_calendars, key)[i][2],
                                         CalOf(room_calendars, key)[j][1],
                                         CalOf(room_calendars, key)[j][2])

\* C12: right after solve or rebuild_calendar returns, whatever calls came
\* before, every (room_type, room) key of the calendar holds exactly the
\* intervals of the rows of the current assignment on that room, one per row,
\* nothing left from earlier calls, and no two of them overlap.
C12_CalendarIsReplay ==
    (pc = "s_done" \/ (pc = "s_start" /\ cal_last.op = "rebuild"))
        => CalendarIsReplay(assigned_rows)

\* the same for the legacy assign_rooms of logic.py, which resets its calendar
\* and reserves every row it assigns (holds under SpecOrch)
LegacyCalendarIsReplay == pc = "done" => CalendarIsReplay(assigned_rows)

-----------------------------------------------------------------------------
(* Properties of validate as a function of the table, under SpecRoundTrip *)

-----------------------------------------------------------------------------
(* Properties of the validator's soft notes, under SpecVal *)

\* the distinct rooms of one family and type, naturally sorted
DistinctRoomsSorted(df, f, rt) ==
    Dedup(SortRooms(RoomLabelsOf(
        SelectSeq(df, LAMBDA r : r.family = f /\ r.room_type = rt))))

SerialNoteFor(f, rt) ==
    \E k \in DOMAIN val_out.soft_violations :
        /\ val_out.soft_violations[k][1] = "not_serial"
        /\ val_out.soft_violations[k][2] = f
        /\ val_out.soft_violations[k][3] = rt

\* C14: validate reports "rooms not in serial order" for a family and room
\* type exactly when the family has more than one assigned room of that type
\* and these rooms, naturally sorted, are not serial from each to the next; a
\* family whose bookings of a type all sit in one room is not reported.
C14_SerialNoteExact ==
    (val_out.called /\ assigned_rows # <<>>) =>
        \A f \in Families, rt \in RoomTypes :
            SerialNoteFor(f, rt) <=>
                /\ Len(DistinctRoomsSorted(assigned_rows, f, rt)) > 1
                /\ \E i \in 1..(Len(DistinctRoomsSorted(assigned_rows, f, rt)) - 1) :
                      ~ AreSerial(DistinctRoomsSorted(assigned_rows, f, rt)[i],
                                  DistinctRoomsSorted(assigned_rows, f, rt)[i + 1])

-----------------------------------------------------------------------------
(* Properties of the phases of the legacy per-type solver, under SpecPT *)

\* the assignment the call would return at this point
PhaseResult == IF ret.phase \in {"B", "C", "fail"} THEN ret.assignment ELSE pt.assignment

\* the bookings of the running call that have no room at this point
UnplacedCount == Len(pt.rows) - Cardinality(DOMAIN PhaseResult)

\* C15: along the phases of _assign_per_type the number of unplaced bookings
\* never goes up: after Phase C it is at most what it was after Phase B, and
\* after Phase B at most what it was after Phase A.
C15_UnplacedNeverIncreases ==
    [][ (pt.phase \in {"A", "B", "C"} /\ pt'.phase \in {"A", "B", "C"}) =>
            UnplacedCount' <= UnplacedCount ]_vars

\* Phase C ran over pinned rows and still left bookings without a room
C15_Witness ==
    /\ pc = "fail"
    /\ pt.phase = "C"
    /\ pt.pinned_forced_ids # <<>>
    /\ UnplacedCount > 0
    /\ UnplacedCount < Len(pt.rows)

-----------------------------------------------------------------------------
(* The scenario of a family with three bookings, under SpecScenario *)

\* the rooms family B forces, and the rooms given to a family in the result
ScenForced == { families_df[i].forced_room : i \in DOMAIN families_df } \ {""}

ScenRoomsGiven(f) ==
    { assigned_rows[i].room : i \in { j \in DOMAIN assigned_rows :
                                          assigned_rows[j].family = f } }

ScenarioMet ==
    /\ Cardinality({ j \in DOMAIN assigned_rows : assigned_rows[j].family = "A" }) = 3
    /\ ScenRoomsGiven("A") = ScenLabels \ ScenForced
    /\ ScenRoomsGiven("B") = ScenForced
    /\ unassigned_rows = <<>>

\* C16: with a catalog of rooms 1..5 and a family with three unforced
\* bookings of one interval, the family gets exactly the three rooms that the
\* other family's forced bookings leave free: rooms 2, 3 and 4 when rooms 1
\* and 5 are forced, and three rooms that are not serial when room 3 is
\* forced; in both cases all three bookings are placed and none is unassigned.
C16_ThreeBookingsPlaced ==
    (pc \in {"s_done", "s_raised"} /\ rooms_df = ScenCatalog) => ScenarioMet

\* the legacy assign_rooms of logic.py on the same inputs (holds under
\* SpecScenarioLegacy)
LegacyThreeBookingsPlaced == pc = "done" => ScenarioMet

-----------------------------------------------------------------------------
(* C17 *)

\* the room the final assignment gave booking i ("" when it has no row)
PlacedRoomOf(i) ==
    IF \E k \in DOMAIN assigned_rows : assigned_rows[k].idx = i
    THEN assigned_rows[CHOOSE k \in DOMAIN assigned_rows : assigned_rows[k].idx = i].room
    ELSE ""

\* the bookings with a forced room that were placed in a different room
ForcedElsewhere ==
    { i \in DOMAIN families_df :
        /\ families_df[i].forced_room # ""
        /\ PlacedRoomOf(i) \notin {"", families_df[i].forced_room} }

\* the assigned rows on the forced room of booking i that overlap its interval
ForcedConflicts(i) ==
    { k \in DOMAIN assigned_rows :
        /\ assigned_rows[k].room_type = families_df[i].room_type
        /\ assigned_rows[k].room = families_df[i].forced_room
        /\ Overlaps(ParseDate(assigned_rows[k].check_in),
                    ParseDate(assigned_rows[k].check_out),
                    ParseDate(families_df[i].check_in),
                    ParseDate(families_df[i].check_out)) }

ForcedReasonDue(i) ==
    IF \A k \in DOMAIN rooms_df :
          ~ (rooms_df[k].room_type = families_df[i].room_type
             /\ rooms_df[k].room = families_df[i].forced_room)
    THEN "does_not_exist"
    ELSE IF ForcedConflicts(i) # {} THEN "occupied"
    ELSE "solver_relaxed"

\* what identifies the report row of booking i
ForcedSignature(i) ==
    <<families_df[i].family, families_df[i].room_type, families_df[i].check_in,
      families_df[i].check_out, families_df[i].forced_room, PlacedRoomOf(i)>>

\* the report rows that are the row due to booking i
ForcedReportRows(i) ==
    { k \in DOMAIN diag_out.results :
        /\ diag_out.results[k].violation = "forced_not_met"
        /\ <<diag_out.results[k].family, diag_out.results[k].room_type,
             diag_out.results[k].check_in, diag_out.results[k].check_out,
             diag_out.results[k].forced_room, diag_out.results[k].assigned_room>>
             = ForcedSignature(i)
        /\ diag_out.results[k].reason = ForcedReasonDue(i)
        /\ (ForcedReasonDue(i) = "occupied" =>
              SeqToSet(diag_out.results[k].blockers)
                = { <<assigned_rows[c].family, assigned_rows[c].check_in,
                      assigned_rows[c].check_out>> : c \in ForcedConflicts(i) }) }

\* C17: every booking with a forced room that was placed in a different room
\* gets one forced_not_met row of the report (as many rows as there are such
\* bookings with the same family, type, dates, forced and given room), with
\* the reason "does not exist" when the label is not in the catalog of the
\* type, else "occupied" and the conflicting families and dates when an
\* assigned row on the forced room overlaps the interval, else "solver relaxed"
C17_ForcedNotMetExplained ==
    (pc = "explained" /\ diag_out.called) =>
        \A i \in ForcedElsewhere :
            Cardinality(ForcedReportRows(i))
              = Cardinality({ j \in ForcedElsewhere :
                                ForcedSignature(j) = ForcedSignature(i) })

\* the same for inputs in which no two bookings share family, type and dates
NoTwinBookings ==
    \A i, j \in DOMAIN families_df :
        (i # j /\ families_df[i].family = families_df[j].family
               /\ families_df[i].room_type = families_df[j].room_type)
          => (families_df[i].check_in # families_df[j].check_in
              \/ families_df[i].check_out # families_df[j].check_out)

ForcedNotMetExplainedWithoutTwins ==
    NoTwinBookings => C17_ForcedNotMetExplained

-----------------------------------------------------------------------------
(* C18 *)

\* the assigned rows of one family and type, in table order
GroupOf(f, rt) ==
    SelectSeq(assigned_rows, LAMBDA r : r.family = f /\ r.room_type = rt)

\* no other family holds the room during the interval of the row
FreeOfOthers(row, rm) ==
    \A k \in DOMAIN assigned_rows :
        (/\ assigned_rows[k].room_type = row.room_type
         /\ assigned_rows[k].room = rm
         /\ assigned_rows[k].family # row.family)
          => ~ Overlaps(ParseDate(assigned_rows[k].check_in),
                        ParseDate(assigned_rows[k].check_out),
                        ParseDate(row.check_in), ParseDate(row.check_out))

\* the first positions of the windows of as many consecutive catalog rooms as
\* the group has bookings
WindowStarts(f, rt) ==
    1..(Len(DiagRoomsByType(rooms_df, rt)) - Len(GroupOf(f, rt)) + 1)

\* the one-to-one maps of the bookings of the group to the rooms of window i
OneToOne(f, rt, i) ==
    { g \in [DOMAIN GroupOf(f, rt) -> i..(i + Len(GroupOf(f, rt)) - 1)] :
        \A a, b \in DOMAIN g : a # b => g[a] # g[b] }

\* window i admits the bookings of the group in distinct rooms, none of them
\* held by another family during the booking
WindowAdmits(f, rt, i) ==
    \E g \in OneToOne(f, rt, i) :
        \A j \in DOMAIN g :
            FreeOfOthers(GroupOf(f, rt)[j], DiagRoomsByType(rooms_df, rt)[g[j]])

AdmittingWindows(f, rt) == { i \in WindowStarts(f, rt) : WindowAdmits(f, rt, i) }

FirstAdmitting(f, rt) ==
    CHOOSE i \in AdmittingWindows(f, rt) : \A j \in AdmittingWindows(f, rt) : i <= j

\* the groups whose rooms are more than one and not serial
NonSerialGroups ==
    { key \in Families \X RoomTypes :
        /\ Len(DistinctRoomsSorted(assigned_rows, key[1], key[2])) > 1
        /\ \E i \in 1..(Len(DistinctRoomsSorted(assigned_rows, key[1], key[2])) - 1) :
              ~ AreSerial(DistinctRoomsSorted(assigned_rows, key[1], key[2])[i],
                          DistinctRoomsSorted(assigned_rows, key[1], key[2])[i + 1]) }

NonSerialReportRows ==
    { k \in DOMAIN diag_out.results : diag_out.results[k].violation = "non_serial" }

\* the options the report computes for the bookings of a group in window i
WindowChoices(f, rt, i) ==
    Choices(GroupOf(f, rt),
            SubSeq(DiagRoomsByType(rooms_df, rt), i, i + Len(GroupOf(f, rt)) - 1),
            SchedulesFromDf(assigned_rows), rt, f)

\* C18: every non-serial group of k bookings has a non_serial row in the
\* report; the row names a feasible block exactly when some window of k
\* consecutive catalog rooms admits the k bookings in k distinct rooms without
\* overlap against other families, and the block named is the first such
\* window; the matching test answers true exactly when the options of a
\* window admit a one-to-one choice of rooms
C18_FeasibleBlockExact ==
    (pc = "explained" /\ diag_out.called) =>
        /\ \A key \in NonSerialGroups :
              \E k \in NonSerialReportRows :
                  /\ diag_out.results[k].family = key[1]
                  /\ diag_out.results[k].room_type = key[2]
        /\ \A k \in NonSerialReportRows :
              /\ (diag_out.results[k].feasible_serial_block # <<>>)
                    <=> (AdmittingWindows(diag_out.results[k].family,
                                          diag_out.results[k].room_type) # {})
              /\ (AdmittingWindows(diag_out.results[k].family,
                                   diag_out.results[k].room_type) # {}) =>
                    diag_out.results[k].feasible_serial_block
                      = SubSeq(DiagRoomsByType(rooms_df, diag_out.results[k].room_type),
                               FirstAdmitting(diag_out.results[k].family,
                                              diag_out.results[k].room_type),
                               FirstAdmitting(diag_out.results[k].family,
                                              diag_out.results[k].room_type)
                                 + Len(GroupOf(diag_out.results[k].family,
                                               diag_out.results[k].room_type)) - 1)
        /\ \A f \in Families, rt \in RoomTypes :
              Len(GroupOf(f, rt)) > 1 =>
                  \A i \in WindowStarts(f, rt) :
                      PerfectMatching(WindowChoices(f, rt, i))
                        <=> \E g \in OneToOne(f, rt, i) :
                               \A j \in DOMAIN g :
                                   DiagRoomsByType(rooms_df, rt)[g[j]]
                                     \in SeqToSet(WindowChoices(f, rt, i)[j])

\* a report that names the second window: the first one admits no matching
\* although each booking has a room in it
C18_Witness ==
    /\ pc = "explained"
    /\ \E k \in NonSerialReportRows :
          /\ diag_out.results[k].feasible_serial_block = <<"2", "3">>
          /\ MatchingSkipped(WindowChoices(diag_out.results[k].family,
                                            diag_out.results[k].room_type, 1))

-----------------------------------------------------------------------------
(* C19 *)

\* blocker <<room, family, check-in, check-out>> is an assigned row of another
\* family than f, on a room of the type
IsOtherReservation(bl, f, rt) ==
    /\ bl[2] # f
    /\ \E k \in DOMAIN assigned_rows :
          /\ assigned_rows[k].room_type = rt
          /\ assigned_rows[k].room = bl[1]
          /\ assigned_rows[k].family = bl[2]
          /\ assigned_rows[k].check_in = bl[3]
          /\ assigned_rows[k].check_out = bl[4]

\* the blocker overlaps the interval of some booking of the group
ConflictsWithGroup(bl, f, rt) ==
    \E j \in DOMAIN GroupOf(f, rt) :
        Overlaps(ParseDate(bl[3]), ParseDate(bl[4]),
                 ParseDate(GroupOf(f, rt)[j].check_in),
                 ParseDate(GroupOf(f, rt)[j].check_out))

\* C19: when the report names no feasible block, every blocker it names is a
\* reservation of another family that overlaps the interval of at least one
\* booking of the family the row is about
C19_BlockersConflict ==
    (pc = "explained" /\ diag_out.called) =>
        \A k \in NonSerialReportRows :
            diag_out.results[k].feasible_serial_block = <<>> =>
                \A b \in DOMAIN diag_out.results[k].blockers :
                    /\ IsOtherReservation(diag_out.results[k].blockers[b],
                                          diag_out.results[k].family,
                                          diag_out.results[k].room_type)
                    /\ ConflictsWithGroup(diag_out.results[k].blockers[b],
                                          diag_out.results[k].family,
                                          diag_out.results[k].room_type)

\* the part of it that holds: every blocker is another family's reservation
BlockersAreOtherReservations ==
    (pc = "explained" /\ diag_out.called) =>
        \A k \in NonSerialReportRows :
            \A b \in DOMAIN diag_out.results[k].blockers :
                IsOtherReservation(diag_out.results[k].blockers[b],
                                   diag_out.results[k].family,
                                   diag_out.results[k].room_type)

-----------------------------------------------------------------------------
(* C20 *)

\* the forced room of booking i is not in the catalog of its type, or another
\* booking forced to the same room overlaps it
ForcedUnavailable(i) ==
    /\ families_df[i].forced_room # ""
    /\ \/ \A k \in DOMAIN rooms_df :
             ~ (rooms_df[k].room_type = families_df[i].room_type
                /\ rooms_df[k].room = families_df[i].forced_room)
       \/ \E j \in DOMAIN families_df :
             /\ j # i
             /\ families_df[j].room_type = families_df[i].room_type
             /\ families_df[j].forced_room = families_df[i].forced_room
             /\ RowsClash(families_df[i], families_df[j])

\* C20: after the last rung of the ladder (waive_serial and waive_forced both
\* true), whenever the bookings of the type can all be placed in the rooms of
\* the type without two overlapping bookings sharing a room (forced rooms
\* disregarded), the search has placed every booking: a booking whose forced
\* room is occupied or absent sits in another free room, and no booking of
\* the type is left without a room
C20_LastRungWaivesForced ==
    (pc = "rung_done"
       /\ HardFeasible(families_df, { rooms_df[k].room : k \in DOMAIN rooms_df }))
        => /\ ret.raised = "none"
           /\ DOMAIN ret.value.found_map = DOMAIN families_df

\* the same for inputs in which every forced room can be had
LastRungCompleteWhenPinsFit ==
    (pc = "rung_done"
       /\ HardFeasible(families_df, { rooms_df[k].room : k \in DOMAIN rooms_df })
       /\ \A i \in DOMAIN families_df : families_df[i].forced_room # "" => ~ ForcedUnavailable(i))
        => /\ ret.raised = "none"
           /\ DOMAIN ret.value.found_map = DOMAIN families_df

-----------------------------------------------------------------------------
(* C21 *)

\* the number of other rows of the call whose interval overlaps that of row i
OverlapDegree(i) ==
    Cardinality({ o \in DOMAIN CallRows : o # i /\ RowsClash(CallRows[i], CallRows[o]) })

\* the rows pinned in Phase A
PinnedIds == SeqToSet(pt.pinned_forced_ids)

\* every row can have a room, no two clashing rows share one, and every pinned
\* row other than fid keeps its forced room
CompleteKeepingPinsBut(fid) ==
    \E f \in [DOMAIN CallRows -> CallRooms] :
        /\ \A i, j \in DOMAIN CallRows :
              (i # j /\ f[i] = f[j]) => ~ RowsClash(CallRows[i], CallRows[j])
        /\ \A pid \in PinnedIds \ {fid} : f[pid] = pt.rows[pid].forced

\* Phase C is entered only after a Phase B that left a row without a room,
\* and with some row pinned
PhaseCOnlyAfterFailedB ==
    pc = "phaseC" =>
        /\ pt.pinned_forced_ids # <<>>
        /\ DOMAIN pt.assignment # DOMAIN pt.rows

\* the attempts still to come are pinned rows in descending overlap degree
PhaseCOrder ==
    pc = "phaseC" =>
        /\ SeqToSet(pt.try_order) \subseteq PinnedIds
        /\ \A a, b \in DOMAIN pt.try_order :
              a < b => OverlapDegree(pt.try_order[a]) >= OverlapDegree(pt.try_order[b])
        /\ \A e \in PinnedIds \ SeqToSet(pt.try_order) :
              \A a \in DOMAIN pt.try_order :
                  OverlapDegree(e) >= OverlapDegree(pt.try_order[a])

\* a Phase C return: complete, one id added to waived_forced, every other pin
\* kept, and no earlier attempt could have placed every row
PhaseCResult ==
    (Returned /\ ret.phase = "C") =>
        /\ DOMAIN ret.assignment = DOMAIN CallRows
        /\ ret.unassigned = <<>>
        /\ pt.try_order # <<>>
        /\ ret.waived_forced = Append(pt.waived_forced, Head(pt.try_order))
        /\ Head(pt.try_order) \in PinnedIds
        /\ Head(pt.try_order) \notin SeqToSet(pt.waived_forced)
        /\ \A pid \in PinnedIds \ {Head(pt.try_order)} :
              ret.assignment[pid] = pt.rows[pid].forced
        /\ \A e \in PinnedIds \ SeqToSet(pt.try_order) : ~ CompleteKeepingPinsBut(e)

\* C21: Phase C runs only when Phase B left a booking unplaced and some
\* booking was pinned; its attempts waive one pinned booking each, in
\* descending order of conflict degree; it returns at the first attempt that
\* places every booking, with every other pinned booking in its forced room
\* and exactly one id added to waived_forced
C21_PhaseCWaivesOnePin ==
    /\ PhaseCOnlyAfterFailedB
    /\ PhaseCOrder
    /\ PhaseCResult

-----------------------------------------------------------------------------
(* C22 *)

\* every row can have a room with every Phase A pin kept
CompleteKeepingPins ==
    \E f \in [DOMAIN CallRows -> CallRooms] :
        /\ \A i, j \in DOMAIN CallRows :
              (i # j /\ f[i] = f[j]) => ~ RowsClash(CallRows[i], CallRows[j])
        /\ \A pid \in PinnedIds : f[pid] = pt.rows[pid].forced

\* after Phase B the working assignment still holds every pin on its room
PinsKeptByPhaseB ==
    pc \in {"phaseC", "fail", "commit"} =>
        \A pid \in PinnedIds :
            pid \in DOMAIN pt.assignment /\ pt.assignment[pid] = pt.rows[pid].forced

\* the result when the pins can all be kept
PinsKeptInResult ==
    (Returned /\ CompleteKeepingPins) =>
        /\ DOMAIN ret.assignment = DOMAIN CallRows
        /\ ret.unassigned = <<>>
        /\ \A pid \in PinnedIds : ret.assignment[pid] = pt.rows[pid].forced
        /\ ret.waived_forced = pt.waived_forced

\* C22: when a complete assignment exists that keeps every Phase A pin, the
\* call returns a complete assignment with every pinned booking in its forced
\* room and nothing waived beyond Phase A; Phase B leaves the pinned
\* placements where they are
C22_PinsKeptWhenPossible ==
    /\ PinsKeptByPhaseB
    /\ PinsKeptInResult

\* the same for calls in which Phase A left some booking to Phase B
PinsKeptWhenPhaseBRuns ==
    (pc \in {"phaseC", "fail", "commit"} /\ PinnedIds # DOMAIN CallRows)
        => C22_PinsKeptWhenPossible

-----------------------------------------------------------------------------
(* C23 *)

\* the rows of the call forced to room g of the catalog
ForcedGroup(g) == { i \in DOMAIN CallRows : CleanOpt(CallRows[i].forced_room) = g }

\* row j comes before row i in ascending (check_out, check_in) order, rows
\* with equal dates in the order of the table
PackedBefore(j, i) ==
    \/ ParseDate(CallRows[j].check_out) < ParseDate(CallRows[i].check_out)
    \/ /\ ParseDate(CallRows[j].check_out) = ParseDate(CallRows[i].check_out)
       /\ \/ ParseDate(CallRows[j].check_in) < ParseDate(CallRows[i].check_in)
          \/ /\ ParseDate(CallRows[j].check_in) = ParseDate(CallRows[i].check_in)
             /\ j < i

\* the subsets of a forced group whose rows are pairwise non-overlapping
Compatible(g) ==
    { S \in SUBSET ForcedGroup(g) :
        \A i, j \in S : i # j => ~ RowsClash(CallRows[i], CallRows[j]) }

\* C23: after Phase A, for every room of the catalog, a booking forced to it
\* is pinned on it exactly when it overlaps no booking pinned there before it
\* in ascending (check_out, check_in) order; every other booking forced to it
\* is in waived_forced, logged, without forced label and without room; the
\* bookings pinned on the room are pairwise non-overlapping and no larger set
\* of its forced bookings could be pinned together
C23_PhaseAPacksForcedRooms ==
    pc = "phaseB" =>
        \A g \in CallRooms :
            /\ \A i \in ForcedGroup(g) :
                  /\ (i \in PinnedIds) <=>
                        \A j \in ForcedGroup(g) \cap PinnedIds :
                            PackedBefore(j, i) => ~ RowsClash(CallRows[i], CallRows[j])
                  /\ i \in PinnedIds =>
                        /\ i \in DOMAIN pt.assignment
                        /\ pt.assignment[i] = g
                        /\ i \notin SeqToSet(pt.waived_forced)
                  /\ i \notin PinnedIds =>
                        /\ i \in SeqToSet(pt.waived_forced)
                        /\ <<"forced_overlap_waived", pt.rt, CallRows[i].family, i>>
                              \in SeqToSet(log)
                        /\ pt.rows[i].forced = ""
                        /\ i \notin DOMAIN pt.assignment
            /\ ForcedGroup(g) \cap PinnedIds \in Compatible(g)
            /\ \A S \in Compatible(g) :
                  Cardinality(S) <= Cardinality(ForcedGroup(g) \cap PinnedIds)

\* a room with three forced bookings of which the two short ones are pinned
\* and the long one, first in the table, is waived
C23_Witness ==
    /\ pc = "phaseB"
    /\ \E g \in CallRooms :
          /\ Cardinality(ForcedGroup(g)) = 3
          /\ Cardinality(ForcedGroup(g) \cap PinnedIds) = 2
          /\ 1 \notin PinnedIds

-----------------------------------------------------------------------------
(* C24 *)

\* the bookings of the search, by idx
SearchedRows == families_df

\* no two bookings of the returned map share a room while their intervals overlap
FoundMapOverlapFree ==
    \A i, j \in DOMAIN ret.value.found_map :
        (i # j /\ ret.value.found_map[i] = ret.value.found_map[j])
            => ~ RowsClash(SearchedRows[i], SearchedRows[j])

\* the count of expanded nodes stays within node_limit
ExploredWithinLimit ==
    pc = "search_done" => ret.value.explored <= pt.kw.node_limit

\* a run flagged timed out is flagged incomplete and returns an overlap-free
\* map no smaller than any map a placement built while the count of expanded
\* nodes was below node_limit
TimedOutResult ==
    (pc = "search_done" /\ ret.value.timed_out) =>
        /\ ~ ret.value.complete
        /\ FoundMapOverlapFree
        /\ Cardinality(DOMAIN ret.value.found_map) >= ret.placed_in_budget

\* once the count of expanded nodes has reached node_limit no placement is made
NoPlacementOnceReached ==
    pc = "search_done" => ret.placed_late = 0

\* the returned map is no smaller than a map built by a placement that was
\* made once the count had reached node_limit
LatePlacementsReturned ==
    pc = "search_done" => Cardinality(DOMAIN ret.value.found_map) >= ret.placed_late

\* a run in which the count reached node_limit is flagged timed out
ReachedIsFlagged ==
    (pc = "search_done" /\ ret.value.explored >= pt.kw.node_limit) => ret.value.timed_out

\* C24: in one run of the search the number of expanded nodes never exceeds
\* node_limit; once the budget is reached no further placement is tried, and
\* the run returns, flagged incomplete and timed out, an overlap-free partial
\* assignment at least as large as every partial assignment reached before
\* the budget was hit
C24_NodeBudgetKept ==
    /\ ExploredWithinLimit
    /\ NoPlacementOnceReached
    /\ ReachedIsFlagged
    /\ TimedOutResult

\* ---------------------------------------------------------------------------
\* C25: within one type's backtracking search every tentative placement that
\* does not lead to a complete assignment is undone last-in first-out: after
\* the undo that follows a failed recursive call the per-room interval lists
\* and the partial assignment map are exactly what they were before that
\* placement was made
SearchEnded == pc \in {"phaseC", "fail", "commit"} /\ pt # NoPt

C25_UndoRestores == SearchEnded => pt.undone_exactly

\* a search that stacked two placements and undid three or more, each exactly
C25_Witness ==
    /\ pc = "commit"
    /\ pt # NoPt
    /\ pt.undone >= 3
    /\ pt.reached >= 2
    /\ pt.undone_exactly

\* the same for the search of the package: the calendars and current_map are
\* restored by every undo
UndoRestoresInSearch == pc = "search_done" => ret.undone_exactly

UndoneInSearch == pc = "search_done" /\ ret.undone >= 2 /\ ret.undone_exactly

-----------------------------------------------------------------------------
(* One type solved on its own, compared with the merged result, under SpecOrch *)

\* the tables with the rows of every other type taken out
OnlyType(df, rt) == SelectSeq(df, LAMBDA r : r.room_type = rt)

\* _assign_per_type run from fresh locals on the rows and rooms it is given:
\* Phase A, the search of Phase B, and the relaxation loop of Phase C
SoloSearch(rows, rooms, base) ==
    RunBacktrack(rows, rooms, Remainder(rows, base.assign),
        [sched |-> base.sched, assign |-> base.assign, best |-> base.assign,
         reached |-> 0, trail |-> <<>>, undone |-> 0, undone_exactly |-> TRUE])

RECURSIVE SoloPhaseC(_, _, _, _)
RECURSIVE SoloPhaseCTry(_, _, _, _, _)
SoloPhaseC(order, a, rooms, after) ==
    IF order = <<>> THEN after
    ELSE SoloPhaseCTry(order, a, rooms, after,
            SoloSearch(a.rows, rooms,
                PinsWithout(a.pinned_forced_ids, Head(order), a.rows, after,
                            [sched |-> FreshSchedules(rooms), assign |-> << >>])))

SoloPhaseCTry(order, a, rooms, after, r) ==
    IF r.ok THEN r.st.assign ELSE SoloPhaseC(Tail(order), a, rooms, after)

SoloPhaseB(a, rooms, r) ==
    IF r.ok \/ a.pinned_forced_ids = <<>> THEN r.st.assign
    ELSE SoloPhaseC(TryOrder(a.rows, a.pinned_forced_ids), a, rooms, r.st.assign)

SoloPhases(a, rooms) ==
    SoloPhaseB(a, rooms, SoloSearch(a.rows, rooms,
                             [sched |-> a.schedules, assign |-> a.assignment]))

AssignPerTypeAlone(rows, rooms, rt) ==
    SoloPhases(ForcedPreplacement(IndexRows(rows), rooms, rt, <<>>), rooms)

\* the assigned rows a map gives for the rows of one type, in row order
RowsWithRooms(rows, rt, assignment) ==
    [k \in DOMAIN SelectSeq(Idxs(Len(rows)), LAMBDA i : i \in DOMAIN assignment) |->
        [family |-> rows[SelectSeq(Idxs(Len(rows)),
                                   LAMBDA i : i \in DOMAIN assignment)[k]].family,
         check_in |-> rows[SelectSeq(Idxs(Len(rows)),
                                     LAMBDA i : i \in DOMAIN assignment)[k]].check_in,
         check_out |-> rows[SelectSeq(Idxs(Len(rows)),
                                      LAMBDA i : i \in DOMAIN assignment)[k]].check_out,
         room |-> assignment[SelectSeq(Idxs(Len(rows)),
                                       LAMBDA i : i \in DOMAIN assignment)[k]]]]

\* what the bookings of rt receive when the tables hold that type only
SolvedAlone(fam, rdf, rt) ==
    IF RoomsByType(rdf, rt) = <<>> THEN <<>>
    ELSE RowsWithRooms(RowsOfType(fam, rt), rt,
            AssignPerTypeAlone(RowsOfType(fam, rt), SortRooms(RoomsByType(rdf, rt)), rt))

\* what the bookings of rt received in the merged result of the whole tables
ReceivedInMerge(rt) ==
    [k \in DOMAIN OnlyType(assigned_rows, rt) |->
        [family |-> OnlyType(assigned_rows, rt)[k].family,
         check_in |-> OnlyType(assigned_rows, rt)[k].check_in,
         check_out |-> OnlyType(assigned_rows, rt)[k].check_out,
         room |-> OnlyType(assigned_rows, rt)[k].room]]

-----------------------------------------------------------------------------
(* The two outputs of solve as a partition of the input *)

\* the rows of a table that carry the identity of booking b
RowsOfBooking(rows, b) ==
    { k \in DOMAIN rows :
         /\ rows[k].idx = b.idx
         /\ rows[k].family = b.family
         /\ rows[k].room_type = b.room_type
         /\ rows[k].check_in = b.check_in
         /\ rows[k].check_out = b.check_out }

SolvePartitions ==
    /\ Len(assigned_rows) + Len(unassigned_rows) = Len(families_df)
    /\ \A i \in DOMAIN families_df :
          Cardinality(RowsOfBooking(assigned_rows, Bookings(families_df)[i]))
            + Cardinality(RowsOfBooking(unassigned_rows, Bookings(families_df)[i])) = 1

\* C27: solve partitions its input: when it ends, every input booking appears
\* in exactly one of assigned and unassigned, exactly once, with its family,
\* room_type and dates unchanged, so the two outputs together have as many
\* rows as the input, for every input
C27_SolvePartitions == pc \in {"s_done", "s_raised"} => SolvePartitions

\* the part that holds: a solve that returns has partitioned its input
SolvePartitionsOnReturn == pc = "s_done" => SolvePartitions

\* the legacy solve: rows carry no index, so bookings are counted by their
\* family, room_type and dates
SameBooking(r, b) ==
    /\ r.family = b.family
    /\ r.room_type = b.room_type
    /\ r.check_in = b.check_in
    /\ r.check_out = b.check_out

CountLike(rows, b) == Cardinality({ k \in DOMAIN rows : SameBooking(rows[k], b) })

LegacySolvePartitions ==
    pc = "done" =>
        /\ Len(assigned_rows) + Len(unassigned_rows) = Len(families_df)
        /\ \A i \in DOMAIN families_df :
              CountLike(assigned_rows, families_df[i])
                + CountLike(unassigned_rows, families_df[i])
                = CountLike(families_df, families_df[i])

LegacyPartitionSeen ==
    pc = "done" /\ assigned_rows # <<>> /\ unassigned_rows # <<>>

-----------------------------------------------------------------------------
(* C28 *)

\* the bookings with a forced room that are unassigned or sit in another room
ForcedUnmet ==
    { i \in DOMAIN families_df :
        families_df[i].forced_room # "" /\ PlacedRoomOf(i) # families_df[i].forced_room }

\* what a forced_not_met row says about the booking it reports
ForcedRowKey(r) == <<r.family, r.room_type, r.check_in, r.check_out, r.forced_room>>

ForcedNotMetRows ==
    { k \in DOMAIN diag_out.results : diag_out.results[k].violation = "forced_not_met" }

\* C28: explain_soft_constraints emits a forced_not_met row for a forced
\* booking only if that booking itself is unassigned or sits in a room other
\* than its forced room (the per-row forced check of validate_constraints):
\* the forced_not_met rows of one family, type, dates and forced room are never
\* more than the bookings of that description that are not in their forced
\* room, also when the family has several bookings of one type and dates
C28_ForcedRowsOnlyForUnmet ==
    (pc = "explained" /\ diag_out.called) =>
        \A k \in ForcedNotMetRows :
            Cardinality({ j \in ForcedNotMetRows :
                            ForcedRowKey(diag_out.results[j])
                              = ForcedRowKey(diag_out.results[k]) })
              <= Cardinality({ i \in ForcedUnmet :
                                 ForcedRowKey(families_df[i])
                                   = ForcedRowKey(diag_out.results[k]) })

\* the same for inputs in which no two bookings share family, type and dates
ForcedRowsOnlyForUnmetWithoutTwins ==
    NoTwinBookings => C28_ForcedRowsOnlyForUnmet

ForcedRowSeenWithoutTwins ==
    pc = "explained" /\ diag_out.called /\ NoTwinBookings /\ ForcedNotMetRows # {}

-----------------------------------------------------------------------------
(* C29 *)

\* the numbers of the rooms go up by exactly 1 from each room to the next
SerialBlock(block) ==
    /\ \A i \in DOMAIN block : RoomNum(block[i]) >= 0
    /\ \A i \in 1..(Len(block) - 1) :
          RoomNum(SortRooms(block)[i + 1]) = RoomNum(SortRooms(block)[i]) + 1

BlockRows ==
    { k \in DOMAIN diag_out.results :
        /\ diag_out.results[k].violation = "non_serial"
        /\ diag_out.results[k].feasible_serial_block # <<>> }

\* C29: every block that explain_soft_constraints returns in
\* feasible_serial_block is a serial block: the numbers of its k rooms, in
\* natural order, increase by exactly 1 from each room to the next, also when
\* the numbers of the catalog have gaps or a label has no number
C29_FeasibleBlockIsSerial ==
    (pc = "explained" /\ diag_out.called) =>
        \A k \in BlockRows : SerialBlock(diag_out.results[k].feasible_serial_block)

\* a report that names a block
BlockReported == pc = "explained" /\ diag_out.called /\ BlockRows # {}

-----------------------------------------------------------------------------
(* C30 *)

\* every undo left family_serial_memory as it was before the placement
MemoryRestored == pc = "search_done" => ret.memory_restored

\* every undo left assigned_numbers and chosen_area of every field group as
\* they were before the placement
GroupsRestored == pc = "search_done" => ret.groups_restored

\* no call of score_candidate changed a field group
ScoreCandidatePure == pc = "search_done" => ret.score_pure

\* every candidate order was the one the placements of the current branch
\* alone give
OrderKept == pc = "search_done" => ret.order_kept

\* C30: in _search_assignments the undo of a tentative placement restores the
\* soft-scoring state, family_serial_memory and the assigned_numbers and
\* chosen_area of each field group, to what it was before the placement;
\* score_candidate never changes that state; so the order in which candidates
\* are tried does not depend on branches abandoned earlier
C30_UndoRestoresScoring ==
    MemoryRestored /\ GroupsRestored /\ ScoreCandidatePure /\ OrderKept

\* a search over field bookings that undid placements
FieldUndone == pc = "search_done" /\ ret.undone >= 2 /\ ret.memory_restored

====
